---- MODULE Spec2Model ----
(***************************************************************************)
(* A model of the stackmac interpreter: the Stack container, the           *)
(* StackMachine run loop (execute / execute_instruction / trace_state),    *)
(* the reuse of a machine for several programs, the opcode registry with   *)
(* the loading of its extension modules, the two parsers of source files,  *)
(* and the bytecode files the compilers write and the loaders read.        *)
(*                                                                         *)
(* Python values are modelled as tuples: <<n>> is the int n and <<>> is    *)
(* None, so that an absent operand stays distinct from the operand 0.      *)
(***************************************************************************)
EXTENDS Integers, Sequences, FiniteSets, TLC

\* ------------------------------------------------------------------ bounds
\* longest program the model loads
MaxProgLen == 2
\* deepest stack the client builds through Stack.push before a run
MaxStack == 2
\* most instructions dispatched in one run (a looping program never ends)
MaxSteps == 4
\* most calls a client makes on a Stack it uses alone
MaxCalls == 5
\* most runs of execute() on one machine
MaxRuns == 2
\* most lines of a source file given to a parser
MaxLines == 3
\* most calls of debug_state() a client makes
MaxDebug == 1

\* ------------------------------------------------------------ Python values
None == <<>>
PyInt(n) == <<n>>
IsNone(x) == Len(x) = 0
IntOf(x) == x[1]

\* the largest value struct's 'i' format packs; the least is -INT_MAX - 1
INT_MAX == 2147483647

\* a Python int outside the 'i' range: kept as its decimal text
BigInt(s) == <<"big", s>>
IsBig(x) == Len(x) = 2

\* Python's int has no width. The magnitude of an operand is held as
\* three digits to the base LIMB, least significant first, so that sums
\* and products of 'i'-range operands are exact
LIMB == 10000

Limbs(n) == <<n % LIMB, (n \div LIMB) % LIMB, n \div (LIMB * LIMB)>>

\* the sum of two magnitudes, as five digits
AddMag(x, y) ==
    LET t1 == x[1] + y[1]
        t2 == x[2] + y[2] + (t1 \div LIMB)
        t3 == x[3] + y[3] + (t2 \div LIMB)
    IN <<t1 % LIMB, t2 % LIMB, t3 % LIMB, t3 \div LIMB, 0>>

Magnitude(n) ==
    IF n >= 0 THEN Limbs(n)
    ELSE SubSeq(AddMag(Limbs(0 - (n + 1)), <<1, 0, 0>>), 1, 3)

\* the product of two magnitudes, as five digits
MulMag(x, y) ==
    LET t1 == x[1] * y[1]
        t2 == x[1] * y[2] + x[2] * y[1] + (t1 \div LIMB)
        t3 == x[1] * y[3] + x[2] * y[2] + x[3] * y[1] + (t2 \div LIMB)
        t4 == x[2] * y[3] + x[3] * y[2] + (t3 \div LIMB)
        t5 == x[3] * y[3] + (t4 \div LIMB)
    IN <<t1 % LIMB, t2 % LIMB, t3 % LIMB, t4 % LIMB, t5>>

\* the decimal text of the digit d of a magnitude, in four characters or,
\* for the leading digit, without leading zeros
LimbText(d, leading) ==
    LET ch(k) == <<"0", "1", "2", "3", "4", "5", "6", "7", "8", "9">>[k + 1]
        all == <<ch(d \div 1000), ch((d \div 100) % 10),
                 ch((d \div 10) % 10), ch(d % 10)>>
        skip == IF d >= 1000 THEN 0 ELSE IF d >= 100 THEN 1
                ELSE IF d >= 10 THEN 2 ELSE 3
    IN IF leading THEN SubSeq(all, skip + 1, 4) ELSE all

\* the decimal text of the magnitude r from its digit k down
RECURSIVE MagText(_, _, _)
MagText(r, k, leading) ==
    IF k = 0 THEN <<>>
    ELSE IF leading /\ r[k] = 0 /\ k > 1 THEN MagText(r, k - 1, TRUE)
    ELSE LimbText(r[k], leading) \o MagText(r, k - 1, FALSE)

\* the Python int of sign and magnitude
FromMag(negative, r) ==
    LET low == r[2] * LIMB + r[1]
        fits == /\ r[4] = 0 /\ r[5] = 0
                /\ \/ r[3] < INT_MAX \div (LIMB * LIMB)
                   \/ /\ r[3] = INT_MAX \div (LIMB * LIMB)
                      /\ low <= (INT_MAX % (LIMB * LIMB))
                                 + (IF negative THEN 1 ELSE 0)
    IN IF fits
       THEN PyInt(IF negative THEN (0 - r[3] * (LIMB * LIMB)) - low
                  ELSE r[3] * (LIMB * LIMB) + low)
       ELSE BigInt((IF negative THEN <<"-">> ELSE <<>>) \o MagText(r, 5, TRUE))

\* both operands are short enough for every result to be in the 'i' range
Short(a, b) == (0 - LIMB) < a /\ a < LIMB /\ (0 - LIMB) < b /\ b < LIMB

\* a + b, a - b and a * b on operands of the 'i' range
int_add(a, b) ==
    IF Short(a, b) \/ (a < 0) # (b < 0) THEN PyInt(a + b)
    ELSE FromMag(a < 0, AddMag(Magnitude(a), Magnitude(b)))

int_sub(a, b) ==
    IF Short(a, b) \/ (a < 0) = (b < 0) THEN PyInt(a - b)
    ELSE FromMag(a < 0, AddMag(Magnitude(a), Magnitude(b)))

int_mul(a, b) ==
    IF Short(a, b) THEN PyInt(a * b)
    ELSE FromMag((a < 0) # (b < 0) /\ a # 0 /\ b # 0,
                 MulMag(Magnitude(a), Magnitude(b)))

\* integers the client pushes or writes as operands
Vals == {-7, 0, 2}
\* jump targets written in programs: a negative address (below -len for a
\* one-instruction program, a wrapping index for a longer one), the first
\* address, and a forward address
Targets == {-2, 0, 2}

\* ------------------------------------------------------------------ Stack
push(items, item) == Append(items, item)

is_empty(items) == Len(items) = 0

size(items) == Len(items)

\* a pop that takes the oldest element instead of the newest
pop_Oldest(items) ==
    IF is_empty(items)
    THEN [err |-> "IndexError", items |-> items, value |-> None]
    ELSE [err |-> "", items |-> Tail(items), value |-> Head(items)]

\* pop returns the shortened list and the value, or the exception raised
pop(items) ==
    IF is_empty(items)
    THEN [err |-> "IndexError", items |-> items, value |-> None]
    ELSE [err |-> "", items |-> SubSeq(items, 1, Len(items) - 1),
          value |-> items[Len(items)]]

\* a peek that removes the element it returns
peek_Removes(items) ==
    IF is_empty(items)
    THEN [err |-> "IndexError", items |-> items, value |-> None]
    ELSE [err |-> "", items |-> SubSeq(items, 1, Len(items) - 1),
          value |-> items[Len(items)]]

peek(items) ==
    IF is_empty(items)
    THEN [err |-> "IndexError", items |-> items, value |-> None]
    ELSE [err |-> "", items |-> items, value |-> items[Len(items)]]

\* --------------------------------------------------------------- registry
BASE_OPCODES ==
    [PUSH |-> 1, POP |-> 2, ADD |-> 3, SUB |-> 4, MUL |-> 5, DIV |-> 6,
     DUP |-> 7, SWAP |-> 8, PRINT |-> 9, JUMP |-> 10, JZ |-> 11, HALT |-> 255]

BaseNames == DOMAIN BASE_OPCODES

\* the extension modules shipped in extensions/, by OPCODE_NAME
ExtensionNames ==
    {"MOD", "NEG", "EQ", "NEQ", "LT", "GT", "LTE", "GTE", "DEPTH", "OVER",
     "ROT", "PEEK"}

\* an extension module: its three attributes, and whether it defines all
\* of OPCODE_NAME, OPCODE_VALUE, HAS_OPERAND and execute
Module(name, value, flag, whole) ==
    [OPCODE_NAME |-> name, OPCODE_VALUE |-> value, HAS_OPERAND |-> flag,
     complete |-> whole]

\* OPCODE_VALUE of the shipped modules: 0x10 (MOD) to 0x1B (PEEK)
EXTENSION_VALUES ==
    [MOD |-> 16, NEG |-> 17, EQ |-> 18, NEQ |-> 19, LT |-> 20, GT |-> 21,
     LTE |-> 22, GTE |-> 23, DEPTH |-> 24, OVER |-> 25, ROT |-> 26,
     PEEK |-> 27]

\* the file of each shipped module, by its stem: extensions/mod.py is "mod"
EXTENSION_FILES ==
    [MOD |-> "mod", NEG |-> "neg", EQ |-> "eq", NEQ |-> "neq", LT |-> "lt",
     GT |-> "gt", LTE |-> "lte", GTE |-> "gte", DEPTH |-> "depth",
     OVER |-> "over", ROT |-> "rot", PEEK |-> "peek"]

\* files another extensions directory may hold next to mod, neg and eq: a
\* second module for each of their names (with the code of another module,
\* or with the same code, and with the other operand flag), modules that
\* take a base name or a base code, a module without execute, and a module
\* whose code is the first that does not fit one byte
OtherFiles ==
    [mod_alt |-> Module("MOD", EXTENSION_VALUES["NEG"], TRUE, TRUE),
     neg_alt |-> Module("NEG", EXTENSION_VALUES["MOD"], TRUE, TRUE),
     eq_alt |-> Module("EQ", EXTENSION_VALUES["EQ"], TRUE, TRUE),
     push |-> Module("PUSH", EXTENSION_VALUES["NEG"], FALSE, TRUE),
     push_one |-> Module("PUSH", BASE_OPCODES["PUSH"], TRUE, TRUE),
     neg_jz |-> Module("NEG", BASE_OPCODES["JZ"], FALSE, TRUE),
     bad |-> Module("MOD", EXTENSION_VALUES["MOD"], FALSE, FALSE),
     wide |-> Module("WIDE", BASE_OPCODES["HALT"] + 1, FALSE, TRUE)]

\* the module object a file is imported as; the registry keeps the object,
\* which the model names by the file's stem
module_from_spec(file) ==
    IF file \in DOMAIN OtherFiles THEN OtherFiles[file]
    ELSE LET n == CHOOSE n \in ExtensionNames : EXTENSION_FILES[n] = file
         IN Module(n, EXTENSION_VALUES[n], FALSE, TRUE)

\* registry.extensions once extensions/ is loaded
EXTENSION_MODULES == [n \in ExtensionNames |-> EXTENSION_FILES[n]]

\* registry.opcodes once extensions/ is loaded
LOADED_OPCODES ==
    [n \in BaseNames \cup ExtensionNames |->
        IF n \in BaseNames THEN BASE_OPCODES[n] ELSE EXTENSION_VALUES[n]]

\* registry.extensions as __init__ creates it: an empty dict
NO_EXTENSIONS == [n \in {} |-> ""]

\* the values of a dict
Values(d) == {d[k] : k \in DOMAIN d}

\* d[k] = v on a dict
DictSet(d, k, v) == [n \in DOMAIN d \cup {k} |-> IF n = k THEN v ELSE d[n]]

\* a loader without the test that keeps the base names out
load_extension_file_AnyName(ops, exts, file) ==
    LET mod == module_from_spec(file) IN
    IF ~mod.complete
    THEN [opcodes |-> ops, extensions |-> exts, outcome |-> "missing"]
    ELSE IF mod.OPCODE_VALUE \in Values(BASE_OPCODES)
    THEN [opcodes |-> ops, extensions |-> exts, outcome |-> "reserved value"]
    ELSE [opcodes |-> DictSet(ops, mod.OPCODE_NAME, mod.OPCODE_VALUE),
          extensions |-> DictSet(exts, mod.OPCODE_NAME, file),
          outcome |-> "loaded"]

\* a loader without the test that keeps a registered name's entry
load_extension_file_Overwrites(ops, exts, file) ==
    LET mod == module_from_spec(file) IN
    IF ~mod.complete
    THEN [opcodes |-> ops, extensions |-> exts, outcome |-> "missing"]
    ELSE IF mod.OPCODE_NAME \in DOMAIN BASE_OPCODES
    THEN [opcodes |-> ops, extensions |-> exts, outcome |-> "base opcode"]
    ELSE IF mod.OPCODE_VALUE \in Values(BASE_OPCODES)
    THEN [opcodes |-> ops, extensions |-> exts, outcome |-> "reserved value"]
    ELSE [opcodes |-> DictSet(ops, mod.OPCODE_NAME, mod.OPCODE_VALUE),
          extensions |-> DictSet(exts, mod.OPCODE_NAME, file),
          outcome |-> "loaded"]

\* _load_extension_file: the registry after the call, and the message it
\* printed
load_extension_file(ops, exts, file) ==
    LET mod == module_from_spec(file) IN
    IF ~mod.complete
    THEN [opcodes |-> ops, extensions |-> exts, outcome |-> "missing"]
    ELSE IF mod.OPCODE_NAME \in DOMAIN BASE_OPCODES
    THEN [opcodes |-> ops, extensions |-> exts, outcome |-> "base opcode"]
    ELSE IF mod.OPCODE_VALUE \in Values(BASE_OPCODES)
    THEN [opcodes |-> ops, extensions |-> exts, outcome |-> "reserved value"]
    ELSE IF mod.OPCODE_NAME \in DOMAIN ops
    THEN [opcodes |-> ops, extensions |-> exts, outcome |-> "existing opcode"]
    ELSE [opcodes |-> DictSet(ops, mod.OPCODE_NAME, mod.OPCODE_VALUE),
          extensions |-> DictSet(exts, mod.OPCODE_NAME, file),
          outcome |-> "loaded"]

is_extension(exts, opcode_name) == opcode_name \in DOMAIN exts

has_operand(exts, opcode_name) ==
    IF opcode_name \in DOMAIN exts
    THEN module_from_spec(exts[opcode_name]).HAS_OPERAND
    ELSE opcode_name \in {"PUSH", "JUMP", "JZ"}

\* ------------------------------------------------------------ cycle costs
INSTRUCTION_COSTS ==
    [PUSH |-> 1, POP |-> 1, DUP |-> 1, SWAP |-> 1, ADD |-> 1, SUB |-> 1,
     MUL |-> 3, DIV |-> 10, JUMP |-> 2, JZ |-> 2, PRINT |-> 5, HALT |-> 1]

\* a cost function that charges nothing for an opcode outside the table
get_instruction_cost_FreeDefault(exts, opcode) ==
    IF opcode \in DOMAIN INSTRUCTION_COSTS THEN INSTRUCTION_COSTS[opcode]
    ELSE 0

get_instruction_cost(exts, opcode) ==
    IF opcode \in DOMAIN INSTRUCTION_COSTS THEN INSTRUCTION_COSTS[opcode]
    ELSE IF is_extension(exts, opcode) THEN 1
    ELSE 1

PC_JUMP_OFFSET == 1
TRACE_STACK_LIMIT == 10

\* a division that rounds toward zero, as C's / does
floordiv_Truncating(a, b) ==
    LET aa == IF a < 0 THEN 0 - a ELSE a
        bb == IF b < 0 THEN 0 - b ELSE b
        q == aa \div bb
    IN IF (a < 0) = (b < 0) THEN q ELSE 0 - q

\* Python's a // b for b # 0: the quotient rounded toward negative infinity
floordiv(a, b) == IF b > 0 THEN a \div b ELSE (0 - a) \div (0 - b)

\* ------------------------------------------------------------ the machine
\* A machine value: the fields of StackMachine that a run reads and writes,
\* the lines it has printed, and the exception that escaped (if any).
Raise(m, e) == [m EXCEPT !.err = e]

Line(kind, value) == [kind |-> kind, value |-> value]

\* pop b, then pop a: each pop that succeeds has shortened the stack when
\* the next one raises
Pop2(m) ==
    LET pb == pop(m.stack) IN
    IF pb.err # ""
    THEN [err |-> pb.err, stack |-> pb.items, a |-> None, b |-> None]
    ELSE LET pa == pop(pb.items) IN
         IF pa.err # ""
         THEN [err |-> pa.err, stack |-> pa.items, a |-> None, b |-> pb.value]
         ELSE [err |-> "", stack |-> pa.items, a |-> pa.value, b |-> pb.value]

ExecPUSH(m, operand) == [m EXCEPT !.stack = push(m.stack, operand)]

ExecPOP(m) ==
    LET p == pop(m.stack) IN
    IF p.err # "" THEN Raise(m, p.err) ELSE [m EXCEPT !.stack = p.items]

ExecADD(m) ==
    LET p == Pop2(m) IN
    IF p.err # "" THEN Raise([m EXCEPT !.stack = p.stack], p.err)
    ELSE IF IsNone(p.a) \/ IsNone(p.b)
    THEN Raise([m EXCEPT !.stack = p.stack], "TypeError")
    ELSE [m EXCEPT !.stack = push(p.stack, int_add(IntOf(p.a), IntOf(p.b)))]

\* SUB with the operands taken in pop order: b - a
ExecSUB_Reversed(m) ==
    LET p == Pop2(m) IN
    IF p.err # "" THEN Raise([m EXCEPT !.stack = p.stack], p.err)
    ELSE IF IsNone(p.a) \/ IsNone(p.b)
    THEN Raise([m EXCEPT !.stack = p.stack], "TypeError")
    ELSE [m EXCEPT !.stack = push(p.stack, int_sub(IntOf(p.b), IntOf(p.a)))]

ExecSUB(m) ==
    LET p == Pop2(m) IN
    IF p.err # "" THEN Raise([m EXCEPT !.stack = p.stack], p.err)
    ELSE IF IsNone(p.a) \/ IsNone(p.b)
    THEN Raise([m EXCEPT !.stack = p.stack], "TypeError")
    ELSE [m EXCEPT !.stack = push(p.stack, int_sub(IntOf(p.a), IntOf(p.b)))]

ExecMUL(m) ==
    LET p == Pop2(m) IN
    IF p.err # "" THEN Raise([m EXCEPT !.stack = p.stack], p.err)
    ELSE IF IsNone(p.a) \/ IsNone(p.b)
    THEN Raise([m EXCEPT !.stack = p.stack], "TypeError")
    ELSE [m EXCEPT !.stack = push(p.stack, int_mul(IntOf(p.a), IntOf(p.b)))]

\* DIV whose zero test looks at the dividend a instead of the divisor b
ExecDIV_ChecksDividend(m) ==
    LET p == Pop2(m) IN
    IF p.err # "" THEN Raise([m EXCEPT !.stack = p.stack], p.err)
    ELSE IF ~IsNone(p.a) /\ IntOf(p.a) = 0
    THEN Raise([m EXCEPT !.stack = p.stack], "ZeroDivisionError")
    ELSE IF IsNone(p.a) \/ IsNone(p.b)
    THEN Raise([m EXCEPT !.stack = p.stack], "TypeError")
    ELSE IF IntOf(p.b) = 0
    THEN [m EXCEPT !.stack = push(p.stack, PyInt(0))]
    ELSE [m EXCEPT !.stack =
              push(p.stack, PyInt(floordiv(IntOf(p.a), IntOf(p.b))))]

ExecDIV(m) ==
    LET p == Pop2(m) IN
    IF p.err # "" THEN Raise([m EXCEPT !.stack = p.stack], p.err)
    ELSE IF ~IsNone(p.b) /\ IntOf(p.b) = 0
    THEN Raise([m EXCEPT !.stack = p.stack], "ZeroDivisionError")
    ELSE IF IsNone(p.a) \/ IsNone(p.b)
    THEN Raise([m EXCEPT !.stack = p.stack], "TypeError")
    ELSE [m EXCEPT !.stack =
              push(p.stack, PyInt(floordiv(IntOf(p.a), IntOf(p.b))))]

ExecDUP(m) ==
    LET p == peek(m.stack) IN
    IF p.err # "" THEN Raise(m, p.err)
    ELSE [m EXCEPT !.stack = push(m.stack, p.value)]

\* SWAP that pushes the two values back in the order it popped them from
ExecSWAP_SameOrder(m) ==
    LET p == Pop2(m) IN
    IF p.err # "" THEN Raise([m EXCEPT !.stack = p.stack], p.err)
    ELSE [m EXCEPT !.stack = push(push(p.stack, p.a), p.b)]

ExecSWAP(m) ==
    LET p == Pop2(m) IN
    IF p.err # "" THEN Raise([m EXCEPT !.stack = p.stack], p.err)
    ELSE [m EXCEPT !.stack = push(push(p.stack, p.b), p.a)]

\* PRINT that peeks: the value is printed and stays on the stack
ExecPRINT_Peek(m) ==
    LET p == peek(m.stack) IN
    IF p.err # "" THEN Raise(m, p.err)
    ELSE [m EXCEPT !.stdout = Append(@, Line("Output", p.value))]

ExecPRINT(m) ==
    LET p == pop(m.stack) IN
    IF p.err # "" THEN Raise(m, p.err)
    ELSE [m EXCEPT !.stack = p.items,
                   !.stdout = Append(@, Line("Output", p.value))]

\* JUMP that stores the target itself, so the increment lands on target+1
ExecJUMP_NoOffset(m, operand) ==
    IF IsNone(operand) THEN Raise(m, "TypeError")
    ELSE [m EXCEPT !.pc = IntOf(operand)]

ExecJUMP(m, operand) ==
    IF IsNone(operand) THEN Raise(m, "TypeError")
    ELSE [m EXCEPT !.pc = IntOf(operand) - PC_JUMP_OFFSET]

\* JZ that removes the tested value only when it takes the jump
ExecJZ_PopsWhenTaken(m, operand) ==
    LET p == peek(m.stack) IN
    IF p.err # "" THEN Raise(m, p.err)
    ELSE IF ~IsNone(p.value) /\ IntOf(p.value) = 0
    THEN IF IsNone(operand)
         THEN Raise([m EXCEPT !.stack = pop(m.stack).items], "TypeError")
         ELSE [m EXCEPT !.stack = pop(m.stack).items,
                        !.pc = IntOf(operand) - PC_JUMP_OFFSET]
    ELSE m

ExecJZ(m, operand) ==
    LET p == pop(m.stack) IN
    IF p.err # "" THEN Raise(m, p.err)
    ELSE IF ~IsNone(p.value) /\ IntOf(p.value) = 0
    THEN IF IsNone(operand)
         THEN Raise([m EXCEPT !.stack = p.items], "TypeError")
         ELSE [m EXCEPT !.stack = p.items,
                        !.pc = IntOf(operand) - PC_JUMP_OFFSET]
    ELSE [m EXCEPT !.stack = p.items]

\* HALT that prints its message and leaves the running flag set
ExecHALT_KeepsRunning(m) ==
    [m EXCEPT !.stdout = Append(@, Line("halted", None))]

ExecHALT(m) ==
    [m EXCEPT !.running = FALSE, !.stdout = Append(@, Line("halted", None))]

\* ------------------------------------------------------------- extensions
\* the comparison extensions: pop b, pop a, push 1 if `a rel b` else 0;
\* == and != accept None, the orderings raise TypeError on it
Compare(m, rel) ==
    LET p == Pop2(m) IN
    IF p.err # "" THEN Raise([m EXCEPT !.stack = p.stack], p.err)
    ELSE IF rel \in {"EQ", "NEQ"}
    THEN [m EXCEPT !.stack =
              push(p.stack, PyInt(IF (p.a = p.b) = (rel = "EQ") THEN 1 ELSE 0))]
    ELSE IF IsNone(p.a) \/ IsNone(p.b)
    THEN Raise([m EXCEPT !.stack = p.stack], "TypeError")
    ELSE LET holds == CASE rel = "LT" -> IntOf(p.a) < IntOf(p.b)
                        [] rel = "GT" -> IntOf(p.a) > IntOf(p.b)
                        [] rel = "LTE" -> IntOf(p.a) <= IntOf(p.b)
                        [] rel = "GTE" -> IntOf(p.a) >= IntOf(p.b)
         IN [m EXCEPT !.stack = push(p.stack, PyInt(IF holds THEN 1 ELSE 0))]

\* MOD as a remainder whose sign follows the dividend
ExtMOD_Truncating(m) ==
    LET p == Pop2(m) IN
    IF p.err # "" THEN Raise([m EXCEPT !.stack = p.stack], p.err)
    ELSE IF ~IsNone(p.b) /\ IntOf(p.b) = 0
    THEN Raise([m EXCEPT !.stack = p.stack], "ZeroDivisionError")
    ELSE IF IsNone(p.a) \/ IsNone(p.b)
    THEN Raise([m EXCEPT !.stack = p.stack], "TypeError")
    ELSE [m EXCEPT !.stack =
              push(p.stack,
                   PyInt(IntOf(p.a)
                         - IntOf(p.b)
                           * floordiv_Truncating(IntOf(p.a), IntOf(p.b))))]

ExtMOD(m) ==
    LET p == Pop2(m) IN
    IF p.err # "" THEN Raise([m EXCEPT !.stack = p.stack], p.err)
    ELSE IF ~IsNone(p.b) /\ IntOf(p.b) = 0
    THEN Raise([m EXCEPT !.stack = p.stack], "ZeroDivisionError")
    ELSE IF IsNone(p.a) \/ IsNone(p.b)
    THEN Raise([m EXCEPT !.stack = p.stack], "TypeError")
    ELSE [m EXCEPT !.stack =
              push(p.stack,
                   PyInt(IntOf(p.a)
                         - IntOf(p.b) * floordiv(IntOf(p.a), IntOf(p.b))))]

ExtNEG(m) ==
    LET p == pop(m.stack) IN
    IF p.err # "" THEN Raise(m, p.err)
    ELSE IF IsNone(p.value) THEN Raise([m EXCEPT !.stack = p.items], "TypeError")
    ELSE [m EXCEPT !.stack = push(p.items, PyInt(0 - IntOf(p.value)))]

ExtEQ(m) == Compare(m, "EQ")

ExtNEQ(m) == Compare(m, "NEQ")

ExtLT(m) == Compare(m, "LT")

ExtGT(m) == Compare(m, "GT")

ExtLTE(m) == Compare(m, "LTE")

ExtGTE(m) == Compare(m, "GTE")

ExtDEPTH(m) == [m EXCEPT !.stack = push(m.stack, PyInt(size(m.stack)))]

ExtOVER(m) ==
    IF size(m.stack) < 2 THEN Raise(m, "IndexError")
    ELSE LET pb == pop(m.stack)
             pa == peek(pb.items)
         IN [m EXCEPT !.stack = push(push(pb.items, pb.value), pa.value)]

ExtROT(m) ==
    IF size(m.stack) < 3 THEN Raise(m, "IndexError")
    ELSE LET pc3 == pop(m.stack)
             pb == pop(pc3.items)
             pa == pop(pb.items)
         IN [m EXCEPT !.stack =
                 push(push(push(pa.items, pb.value), pc3.value), pa.value)]

ExtPEEK(m) ==
    IF size(m.stack) < 1 THEN Raise(m, "IndexError")
    ELSE [m EXCEPT !.stdout = Append(@, Line("PEEK", peek(m.stack).value))]

execute_extension(exts, opcode_name, m, operand) ==
    IF opcode_name \notin DOMAIN exts THEN Raise(m, "ValueError")
    ELSE CASE opcode_name = "MOD" -> ExtMOD(m)
           [] opcode_name = "NEG" -> ExtNEG(m)
           [] opcode_name = "EQ" -> ExtEQ(m)
           [] opcode_name = "NEQ" -> ExtNEQ(m)
           [] opcode_name = "LT" -> ExtLT(m)
           [] opcode_name = "GT" -> ExtGT(m)
           [] opcode_name = "LTE" -> ExtLTE(m)
           [] opcode_name = "GTE" -> ExtGTE(m)
           [] opcode_name = "DEPTH" -> ExtDEPTH(m)
           [] opcode_name = "OVER" -> ExtOVER(m)
           [] opcode_name = "ROT" -> ExtROT(m)
           [] opcode_name = "PEEK" -> ExtPEEK(m)

\* ----------------------------------------------------- execute_instruction
\* the counters are bumped before the opcode is looked at
Count(m, exts, opcode) ==
    [m EXCEPT !.instruction_count = @ + 1,
              !.cycle_count = @ + get_instruction_cost(exts, opcode)]

execute_instruction(m, exts, opcode, operand) ==
    LET c == Count(m, exts, opcode) IN
    CASE opcode = "PUSH" -> ExecPUSH(c, operand)
      [] opcode = "POP" -> ExecPOP(c)
      [] opcode = "ADD" -> ExecADD(c)
      [] opcode = "SUB" -> ExecSUB(c)
      [] opcode = "MUL" -> ExecMUL(c)
      [] opcode = "DIV" -> ExecDIV(c)
      [] opcode = "DUP" -> ExecDUP(c)
      [] opcode = "SWAP" -> ExecSWAP(c)
      [] opcode = "PRINT" -> ExecPRINT(c)
      [] opcode = "JUMP" -> ExecJUMP(c, operand)
      [] opcode = "JZ" -> ExecJZ(c, operand)
      [] opcode = "HALT" -> ExecHALT(c)
      [] OTHER -> IF is_extension(exts, opcode)
                  THEN execute_extension(exts, opcode, c, operand)
                  ELSE Raise(c, "ValueError")

\* a loop body without the increment
loop_body_NoAdvance(m, exts, opcode, operand) ==
    execute_instruction(m, exts, opcode, operand)

\* a loop body whose increment also runs when the instruction raised
loop_body_AdvanceOnError(m, exts, opcode, operand) ==
    LET r == execute_instruction(m, exts, opcode, operand) IN
    IF r.running THEN [r EXCEPT !.pc = @ + 1] ELSE r

\* the loop body after the fetch: dispatch, then `if self.running: pc += 1`;
\* an exception leaves the loop before the increment
loop_body(m, exts, opcode, operand) ==
    LET r == execute_instruction(m, exts, opcode, operand) IN
    IF r.err # "" THEN r
    ELSE IF r.running THEN [r EXCEPT !.pc = @ + 1]
    ELSE r

\* a loop condition that ends the run one address early
loop_condition_StopsEarly(m, prog) == m.running /\ m.pc < Len(prog) - 1

\* the loop condition of execute()
loop_condition(m, prog) == m.running /\ m.pc < Len(prog)

\* program[pc] as Python indexes a list: a negative pc counts from the end,
\* and an index below -len raises IndexError (index 0 is no position)
list_index(prog, i) ==
    IF i >= 0 THEN i + 1
    ELSE IF i >= 0 - Len(prog) THEN Len(prog) + i + 1
    ELSE 0

\* the line trace_state prints: pc, the instruction, the top of the stack
trace_line(m, opcode, operand) ==
    LET n == size(m.stack)
        shown == IF n > TRACE_STACK_LIMIT
                 THEN SubSeq(m.stack, n - TRACE_STACK_LIMIT + 1, n)
                 ELSE m.stack
    IN Line("trace", <<m.pc, opcode, operand, shown>>)

\* the line debug_state prints: pc and the repr of the Stack
debug_line(m) == Line("debug", <<m.pc, m.stack>>)

\* ------------------------------------------------------------------ state
VARIABLES
    program,            \* StackMachine.program
    stack,              \* StackMachine.stack.items
    pc,                 \* StackMachine.pc
    running,            \* StackMachine.running
    instruction_count,  \* StackMachine.instruction_count
    cycle_count,        \* StackMachine.cycle_count
    extensions,         \* OpcodeRegistry.extensions, name -> module (file)
    stdout,             \* the lines printed so far
    trace,              \* execute()'s trace argument
    step,               \* execute()'s step argument
    phase,              \* where the client / execute() stands
    cur,                \* the instruction fetched by the current iteration
    error,              \* the exception that left execute(), if any
    pre,                \* history: the machine when the current pause began
    last,               \* history: the last dispatch, before and after
    hist,               \* history: every dispatch of this run, in order
    interrupted,        \* history: Ctrl+C was pressed at a pause of this run
    calls,              \* history: the calls of a client of the Stack alone
    runs,               \* history: how many times execute() was called
    opcodes,            \* OpcodeRegistry.opcodes and StackMachine.OPCODES,
                        \* name -> numeric code; None before the first
                        \* StackMachine() of the process
    attempt,            \* history: the last _load_extension_file call
    source,             \* the lines of the source file given to a tool
    output,             \* the file at the output path of the compiler
    result,             \* history: the last call of a parser or a codec
    peer                \* a second StackMachine of the same process

vars == <<program, stack, pc, running, instruction_count, cycle_count,
          extensions, stdout, trace, step, phase, cur, error, pre, last,
          hist, interrupted, calls, runs, opcodes, attempt, source, output,
          result, peer>>

\* the variables of the machines and the registry, which the tools that
\* read and write files leave alone, and the variables of those tools
machine_vars ==
    <<program, stack, pc, running, instruction_count, cycle_count, stdout,
      trace, step, phase, cur, error, pre, last, hist, interrupted, calls,
      runs, attempt, opcodes, extensions, peer>>

tool_vars == <<source, output, result>>

Machine ==
    [stack |-> stack, pc |-> pc, running |-> running,
     instruction_count |-> instruction_count, cycle_count |-> cycle_count,
     stdout |-> stdout, err |-> ""]

SetMachine(r) ==
    /\ stack' = r.stack
    /\ pc' = r.pc
    /\ running' = r.running
    /\ instruction_count' = r.instruction_count
    /\ cycle_count' = r.cycle_count
    /\ stdout' = r.stdout

Instr(opcode, operand) == [opcode |-> opcode, operand |-> operand]

NoOperandOps ==
    {"POP", "ADD", "SUB", "MUL", "DIV", "DUP", "SWAP", "PRINT", "HALT"}

\* the instructions programs are drawn from: every base opcode, one
\* extension, and one name that is neither ("NOP")
Instrs ==
    {Instr("PUSH", PyInt(v)) : v \in Vals}
    \cup {Instr(o, PyInt(t)) : o \in {"JUMP", "JZ"}, t \in Targets}
    \cup {Instr(o, None) : o \in NoOperandOps \cup {"NEG", "NOP"}}

RECURSIVE SeqsUpTo(_, _)
SeqsUpTo(S, n) ==
    IF n = 0 THEN {<<>>}
    ELSE LET shorter == SeqsUpTo(S, n - 1)
         IN shorter \cup {Append(q, x) : q \in {r \in shorter : Len(r) = n - 1},
                                         x \in S}

Programs == SeqsUpTo(Instrs, MaxProgLen)

\* the (trace, step) arguments of execute(): step is read only under trace
Modes == {<<FALSE, FALSE>>, <<TRUE, FALSE>>, <<TRUE, TRUE>>}

NoInstr == [opcode |-> "", operand |-> None, at |-> 0]

NoError == [type |-> "", where |-> ""]

\* a call on the Stack, as the history keeps it
Call(op, arg, r, items) ==
    [op |-> op, arg |-> arg, err |-> r.err, value |-> r.value,
     before |-> items, after |-> r.items]

NoAttempt ==
    [file |-> "", outcome |-> "",
     before |-> [opcodes |-> NO_EXTENSIONS, extensions |-> NO_EXTENSIONS]]

\* a dict without keys
EmptyDict == [k \in {} |-> 0]

\* a file: whether the path exists, and its bytes
File(bytes) == [exists |-> TRUE, bytes |-> bytes]
NoFile == [exists |-> FALSE, bytes |-> <<>>]

NoResult ==
    [op |-> "", parser |-> "", err |-> "", returned |-> FALSE,
     program |-> <<>>, labels |-> EmptyDict, compiled |-> "",
     encoded |-> <<>>, previous |-> NoFile]

\* StackMachine() and its Stack, before the registry is looked at
\* a run of execute() as one value: the machine, the dispatches so far and
\* where the run stands ("idle" before execute() is called)
Run(m, h, status) == [m |-> m, hist |-> h, status |-> status]

NewMachine ==
    [stack |-> <<>>, pc |-> 0, running |-> FALSE, instruction_count |-> 0,
     cycle_count |-> 0, stdout |-> <<>>, err |-> ""]

\* the second machine before it is constructed
NoPeer == [made |-> FALSE]

\* the second machine as constructed; began is history: the dispatches the
\* first machine had made when the second one's run began
NewPeer ==
    [made |-> TRUE, loaded |-> FALSE, program |-> <<>>,
     run |-> Run(NewMachine, <<>>, "idle"), began |-> 0]

Fresh ==
    /\ program = <<>>
    /\ stack = <<>>
    /\ pc = 0
    /\ running = FALSE
    /\ instruction_count = 0
    /\ cycle_count = 0
    /\ stdout = <<>>
    /\ trace = FALSE
    /\ step = FALSE
    /\ cur = NoInstr
    /\ error = NoError
    /\ pre = Machine
    /\ last = [opcode |-> "", operand |-> None, at |-> 0,
               before |-> Machine, after |-> Machine]
    /\ hist = <<>>
    /\ interrupted = FALSE
    /\ calls = <<>>
    /\ runs = 0
    /\ attempt = NoAttempt
    /\ source = <<>>
    /\ result = NoResult
    /\ peer = NoPeer

\* StackMachine() has returned
MachineInit == Fresh /\ phase = "new"

\* OpcodeRegistry.__init__ before it reads the extensions directory
InitRegistry ==
    /\ MachineInit
    /\ opcodes = BASE_OPCODES
    /\ extensions = NO_EXTENSIONS
    /\ output = NoFile

\* a machine whose registry has loaded the modules of extensions/
Init ==
    /\ MachineInit
    /\ opcodes = LOADED_OPCODES
    /\ extensions = EXTENSION_MODULES
    /\ output = NoFile

\* the process before its first StackMachine(): the global _registry and
\* the class attribute StackMachine.OPCODES are None
InitMain ==
    /\ Fresh
    /\ phase = "start"
    /\ opcodes = None
    /\ extensions = NO_EXTENSIONS
    /\ output = NoFile

\* ---------------------------------------------------------------- actions
\* the client pushes a value through machine.stack before running
StackPush(v) ==
    /\ phase = "new"
    /\ size(stack) < MaxStack
    /\ stack' = push(stack, PyInt(v))
    /\ UNCHANGED <<program, pc, running, instruction_count, cycle_count,
                   extensions, stdout, trace, step, phase, cur, error, pre,
                   last, hist, interrupted, calls, runs, opcodes, attempt,
                   tool_vars, peer>>

\* the calls of a client that works on the Stack alone, each kept in the
\* history: push(v)
StackPushCall(v) ==
    /\ phase = "new"
    /\ Len(calls) < MaxCalls
    /\ stack' = push(stack, PyInt(v))
    /\ calls' = Append(calls,
                       Call("push", PyInt(v),
                            [err |-> "", value |-> None,
                             items |-> push(stack, PyInt(v))], stack))
    /\ UNCHANGED <<program, pc, running, instruction_count, cycle_count,
                   extensions, stdout, trace, step, phase, cur, error, pre,
                   last, hist, interrupted, runs, opcodes, attempt,
                   tool_vars, peer>>

\* pop()
StackPop ==
    /\ phase = "new"
    /\ Len(calls) < MaxCalls
    /\ \E r \in {pop(stack)} :
          /\ stack' = r.items
          /\ calls' = Append(calls, Call("pop", None, r, stack))
    /\ UNCHANGED <<program, pc, running, instruction_count, cycle_count,
                   extensions, stdout, trace, step, phase, cur, error, pre,
                   last, hist, interrupted, runs, opcodes, attempt,
                   tool_vars, peer>>

\* peek()
StackPeek ==
    /\ phase = "new"
    /\ Len(calls) < MaxCalls
    /\ \E r \in {peek(stack)} :
          /\ stack' = r.items
          /\ calls' = Append(calls, Call("peek", None, r, stack))
    /\ UNCHANGED <<program, pc, running, instruction_count, cycle_count,
                   extensions, stdout, trace, step, phase, cur, error, pre,
                   last, hist, interrupted, runs, opcodes, attempt,
                   tool_vars, peer>>

\* debug_state(), called by the client outside a run
DebugState ==
    /\ phase \in {"new", "loaded", "returned", "raised"}
    /\ Len(SelectSeq(stdout, LAMBDA l : l.kind = "debug")) < MaxDebug
    /\ stdout' = Append(stdout, debug_line(Machine))
    /\ UNCHANGED <<program, stack, pc, running, instruction_count,
                   cycle_count, extensions, trace, step, phase, cur, error,
                   pre, last, hist, interrupted, calls, runs, opcodes,
                   attempt, tool_vars, peer>>

load_program(p) ==
    /\ phase \in {"new", "loaded", "returned", "raised"}
    /\ program' = p
    /\ pc' = 0
    /\ phase' = "loaded"
    /\ UNCHANGED <<stack, running, instruction_count, cycle_count,
                   extensions, stdout, trace, step, cur, error, pre, last,
                   hist, interrupted, calls, runs, opcodes, attempt,
                   tool_vars, peer>>

\* execute(trace, step) up to the first test of the loop condition
execute(tr, st) ==
    /\ phase = "loaded"
    /\ runs < MaxRuns
    /\ runs' = runs + 1
    /\ hist' = <<>>
    /\ interrupted' = FALSE
    /\ error' = NoError
    /\ running' = TRUE
    /\ pc' = 0
    /\ instruction_count' = 0
    /\ cycle_count' = 0
    /\ trace' = tr
    /\ step' = st
    /\ phase' = "loop"
    /\ UNCHANGED <<program, stack, extensions, stdout, cur, pre, last, calls,
                   opcodes, attempt,
                   tool_vars, peer>>

\* the loop condition is false: execute() returns
LoopExit ==
    /\ phase = "loop"
    /\ ~loop_condition(Machine, program)
    /\ phase' = "returned"
    /\ UNCHANGED <<program, stack, pc, running, instruction_count,
                   cycle_count, extensions, stdout, trace, step, cur, error,
                   pre, last, hist, interrupted>>
    /\ UNCHANGED <<calls, runs, opcodes, attempt, tool_vars, peer>>

\* program[pc] raises IndexError: pc is below -len(program)
FetchFail ==
    /\ phase = "loop"
    /\ loop_condition(Machine, program)
    /\ list_index(program, pc) = 0
    /\ phase' = "raised"
    /\ error' = [type |-> "IndexError", where |-> "fetch"]
    /\ UNCHANGED <<program, stack, pc, running, instruction_count,
                   cycle_count, extensions, stdout, trace, step, cur, pre,
                   last, hist, interrupted>>
    /\ UNCHANGED <<calls, runs, opcodes, attempt, tool_vars, peer>>

\* fetch program[pc]; with trace, print the trace line, and with step go on
\* to wait for the keypress
Fetch ==
    /\ phase = "loop"
    /\ loop_condition(Machine, program)
    /\ list_index(program, pc) # 0
    /\ instruction_count < MaxSteps
    /\ LET i == program[list_index(program, pc)]
           out == IF trace
                  THEN Append(stdout, trace_line(Machine, i.opcode, i.operand))
                  ELSE stdout
       IN /\ cur' = [opcode |-> i.opcode, operand |-> i.operand, at |-> pc]
          /\ stdout' = out
          /\ pre' = [Machine EXCEPT !.stdout = out]
    /\ phase' = IF trace /\ step THEN "paused" ELSE "exec"
    /\ UNCHANGED <<program, stack, pc, running, instruction_count,
                   cycle_count, extensions, trace, step, error, last, hist,
                   interrupted>>
    /\ UNCHANGED <<calls, runs, opcodes, attempt, tool_vars, peer>>

\* input() returns: the user pressed Enter
Continue ==
    /\ phase = "paused"
    /\ phase' = "exec"
    /\ UNCHANGED <<program, stack, pc, running, instruction_count,
                   cycle_count, extensions, stdout, trace, step, cur, error,
                   pre, last, hist, interrupted>>
    /\ UNCHANGED <<calls, runs, opcodes, attempt, tool_vars, peer>>

\* input() raises KeyboardInterrupt: trace_state clears the running flag and
\* returns to the loop body
Interrupt ==
    /\ phase = "paused"
    /\ stdout' = Append(stdout, Line("interrupted", None))
    /\ running' = FALSE
    /\ interrupted' = TRUE
    /\ phase' = "exec"
    /\ UNCHANGED <<program, stack, pc, instruction_count, cycle_count,
                   extensions, trace, step, cur, error, pre, last, hist>>
    /\ UNCHANGED <<calls, runs, opcodes, attempt, tool_vars, peer>>

\* input() raises EOFError: standard input is at its end. trace_state
\* catches KeyboardInterrupt only, so the exception leaves it and execute()
EndOfInput ==
    /\ phase = "paused"
    /\ phase' = "raised"
    /\ error' = [type |-> "EOFError", where |-> "pause"]
    /\ UNCHANGED <<program, stack, pc, running, instruction_count,
                   cycle_count, extensions, stdout, trace, step, cur, pre,
                   last, hist, interrupted>>
    /\ UNCHANGED <<calls, runs, opcodes, attempt, tool_vars, peer>>

\* execute_instruction on the fetched instruction, then the increment
Dispatch ==
    /\ phase = "exec"
    /\ \E r \in {loop_body(Machine, extensions, cur.opcode, cur.operand)} :
          /\ SetMachine(r)
          /\ error' = IF r.err # ""
                      THEN [type |-> r.err, where |-> "dispatch"]
                      ELSE error
          /\ phase' = IF r.err # "" THEN "raised" ELSE "loop"
          /\ last' = [opcode |-> cur.opcode, operand |-> cur.operand,
                      at |-> cur.at, before |-> Machine, after |-> r]
          /\ hist' = Append(hist, [at |-> cur.at, opcode |-> cur.opcode,
                                   err |-> r.err])
    /\ UNCHANGED <<program, extensions, trace, step, cur, pre, interrupted>>
    /\ UNCHANGED <<calls, runs, opcodes, attempt, tool_vars, peer>>

\* the client's calls, with their arguments drawn from the bounded sets
ClientPush == phase = "new" /\ \E v \in Vals : StackPush(v)

ClientLoad == phase = "new" /\ \E p \in Programs : load_program(p)

ClientExecute == phase = "loaded" /\ \E m \in Modes : execute(m[1], m[2])

\* execute() with its default arguments
ClientRun == phase = "loaded" /\ execute(FALSE, FALSE)

\* a client that pushes values by hand, loads a program and runs it; the
\* runs with trace and in step mode are those of SpecRun
Next ==
    \/ ClientPush
    \/ ClientLoad
    \/ ClientRun
    \/ LoopExit
    \/ FetchFail
    \/ Fetch
    \/ Dispatch

Spec == Init /\ [][Next]_vars

\* a client that only works on the Stack of a machine it does not run:
\* push, pop and peek in any order, and a look at the machine's state
ClientPushCall == phase = "new" /\ \E v \in Vals : StackPushCall(v)

NextStack ==
    \/ ClientPushCall
    \/ StackPop
    \/ StackPeek
    \/ DebugState

SpecStack == Init /\ [][NextStack]_vars

\* the instructions of the programs a reused machine is given: one that
\* leaves a value, one that reads one, HALT, one that fails in dispatch and
\* one that fails in the fetch
ReloadInstrs ==
    {Instr("PUSH", PyInt(2)), Instr("PRINT", None), Instr("HALT", None),
     Instr("ADD", None), Instr("JUMP", PyInt(-2))}

ReloadPrograms == SeqsUpTo(ReloadInstrs, MaxProgLen)

\* the client loads a program into a new machine or into one whose run has
\* returned or raised
ClientReload ==
    /\ phase \in {"new", "returned", "raised"}
    /\ runs < MaxRuns
    /\ \E p \in ReloadPrograms : load_program(p)

\* a client that uses one machine for several programs, one after another
NextReload ==
    \/ ClientReload
    \/ ClientRun
    \/ LoopExit
    \/ FetchFail
    \/ Fetch
    \/ Dispatch

SpecReload == Init /\ [][NextReload]_vars

\* the files of the directory the registry reads
Directory == {"mod", "neg", "eq"} \cup DOMAIN OtherFiles

\* one iteration of _load_extensions: the next file of the directory
LoadExtension(file) ==
    /\ \E r \in {load_extension_file(opcodes, extensions, file)} :
          /\ opcodes' = r.opcodes
          /\ extensions' = r.extensions
          /\ attempt' = [file |-> file, outcome |-> r.outcome,
                         before |-> [opcodes |-> opcodes,
                                     extensions |-> extensions]]
    /\ UNCHANGED <<program, stack, pc, running, instruction_count,
                   cycle_count, stdout, trace, step, phase, cur, error, pre,
                   last, hist, interrupted, calls, runs,
                   tool_vars, peer>>

\* os.listdir gives the files in no particular order
load_extensions == \E file \in Directory : LoadExtension(file)

NextRegistry == load_extensions

SpecRegistry == InitRegistry /\ [][NextRegistry]_vars

\* the programs that use the MOD extension: MOD on the values the client
\* pushed before the run, or on values the program pushes itself
ModInstrs == {Instr("MOD", None)} \cup {Instr("PUSH", PyInt(v)) : v \in Vals}

ModPrograms == SeqsUpTo(ModInstrs, MaxProgLen)

ClientLoadMod == phase = "new" /\ \E p \in ModPrograms : load_program(p)

\* a client that fills the stack, loads a program with MOD and runs it
NextMod ==
    \/ ClientPush
    \/ ClientLoadMod
    \/ ClientRun
    \/ LoopExit
    \/ Fetch
    \/ Dispatch

SpecMod == Init /\ [][NextMod]_vars

\* ------------------------------------------------- text and Python integers
\* a string read from a source file is a sequence of one-character strings

DigitChars == {"0", "1", "2", "3", "4", "5", "6", "7", "8", "9"}

DigitValue(c) ==
    CHOOSE d \in 0..9 :
        <<"0", "1", "2", "3", "4", "5", "6", "7", "8", "9">>[d + 1] = c

\* str.isdigit on the characters of the model
isdigit(s) == s # <<>> /\ \A i \in 1..Len(s) : s[i] \in DigitChars

\* str.lstrip(c) for one character c
RECURSIVE lstrip(_, _)
lstrip(s, c) == IF s # <<>> /\ s[1] = c THEN lstrip(Tail(s), c) ELSE s

\* the value of the digits ds read from position i on, for the sign sg
RECURSIVE accumulate(_, _, _, _, _)
accumulate(s, ds, i, sg, acc) ==
    IF i > Len(ds) THEN PyInt(acc)
    ELSE LET d == DigitValue(ds[i])
             fits == IF sg = 1
                     THEN \/ acc < INT_MAX \div 10
                          \/ acc = INT_MAX \div 10 /\ d <= (INT_MAX % 10)
                     ELSE \/ acc > -(INT_MAX \div 10)
                          \/ acc = -(INT_MAX \div 10) /\ d <= (INT_MAX % 10) + 1
         IN IF fits THEN accumulate(s, ds, i + 1, sg, acc * 10 + sg * d)
            ELSE BigInt(s)

\* int(s) on the characters of the sources: an optional minus sign and
\* decimal digits, or ValueError
int(s) ==
    LET neg == s # <<>> /\ s[1] = "-"
        ds == IF neg THEN Tail(s) ELSE s
    IN IF ~isdigit(ds) THEN [err |-> "ValueError", value |-> None]
       ELSE [err |-> "",
             value |-> accumulate(s, ds, 1, IF neg THEN -1 ELSE 1, 0)]

\* ------------------------------------------------------------------ struct
\* a pack gives the bytes or raises struct.error

Packed(bytes) == [err |-> "", bytes |-> bytes]
PackError == [err |-> "struct.error", bytes |-> <<>>]

\* the four bytes of 0 <= m <= INT_MAX, least significant first
le4(m) ==
    <<m % 256, (m \div 256) % 256, (m \div 65536) % 256, m \div 16777216>>

\* struct.pack('B', n)
pack_B(n) == IF n >= 0 /\ n <= 255 THEN Packed(<<n>>) ELSE PackError

\* struct.pack('<I', n) for the length of a list
pack_I(n) == Packed(le4(n))

\* struct.pack('<i', x): two's complement, little-endian
pack_i(x) ==
    IF IsBig(x) THEN PackError
    ELSE IF IntOf(x) >= 0 THEN Packed(le4(IntOf(x)))
    ELSE LET b == le4((IntOf(x) + INT_MAX) + 1)
         IN Packed(<<b[1], b[2], b[3], b[4] + 128>>)

\* struct.unpack('<i', b)[0] for four bytes b
unpack_i(b) ==
    (b[1] + 256 * b[2] + 65536 * b[3])
        + 16777216 * (IF b[4] >= 128 THEN b[4] - 256 ELSE b[4])

\* struct.unpack('<I', b)[0] for four bytes b, as a Python int: a value of
\* 2^31 or more is the low 31 bits plus 2^31
unpack_I(b) ==
    IF b[4] < 128 THEN PyInt(unpack_i(b))
    ELSE FromMag(FALSE,
                 AddMag(Limbs((b[1] + 256 * b[2] + 65536 * b[3])
                                  + 16777216 * (b[4] - 128)),
                        Magnitude(0 - INT_MAX - 1)))

\* i in range(n), for a count n that unpack_I gave
in_range(i, n) == IsBig(n) \/ i < IntOf(n)

\* ---------------------------------------------------------------- bytecode
\* b'STKM'
MAGIC == <<83, 84, 75, 77>>
VERSION == 1

\* the body of Compiler.compile's loop over the program from instruction i
\* on: what the file holds when the with block is left, and the exception
\* that left it, if any
RECURSIVE write_instructions(_, _, _, _)
write_instructions(ops, prog, i, written) ==
    IF i > Len(prog) THEN [err |-> "", written |-> written]
    ELSE IF prog[i].opcode \notin DOMAIN ops
    THEN [err |-> "KeyError", written |-> written]
    ELSE LET opcode_num == pack_B(ops[prog[i].opcode])
             operand_value == IF IsNone(prog[i].operand) THEN PyInt(0)
                              ELSE prog[i].operand
             operand == pack_i(operand_value)
         IN IF opcode_num.err # ""
            THEN [err |-> opcode_num.err, written |-> written]
            ELSE IF operand.err # ""
            THEN [err |-> operand.err,
                  written |-> written \o opcode_num.bytes]
            ELSE write_instructions(ops, prog, i + 1,
                     written \o opcode_num.bytes \o operand.bytes)

\* the with block of Compiler.compile: open(output_file, 'wb') empties the
\* file, then the header and the instructions are written
write_program(ops, prog) ==
    write_instructions(ops, prog, 1,
        MAGIC \o pack_B(VERSION).bytes \o pack_I(Len(prog)).bytes)

\* f.read(n) at offset pos
read(bytes, pos, n) ==
    SubSeq(bytes, pos + 1, IF pos + n < Len(bytes) THEN pos + n ELSE Len(bytes))

\* Runtime.opcode_names and Disassembler.opcode_names: {v: k for k, v in
\* OPCODES.items()}; the registries of the bytecode specification give no
\* two names one code
opcode_names(ops) ==
    [c \in Values(ops) |-> CHOOSE n \in DOMAIN ops : ops[n] = c]

\* what a load gives: an exception, or the program it returns
Raised(e) == [err |-> e, returned |-> FALSE, program |-> <<>>]
Returned(prog) == [err |-> "", returned |-> TRUE, program |-> prog]

\* the loop of Runtime.load: i records are read, the file stands at pos
RECURSIVE read_instructions(_, _, _, _, _, _)
read_instructions(ops, bytes, num_instructions, i, pos, prog) ==
    IF ~in_range(i, num_instructions) THEN Returned(prog)
    ELSE LET opcode_byte == read(bytes, pos, 1)
             operand_bytes == read(bytes, pos + 1, 4)
         IN IF Len(opcode_byte) # 1 \/ Len(operand_bytes) # 4
            THEN Raised("struct.error")
            ELSE IF opcode_byte[1] \notin DOMAIN opcode_names(ops)
            THEN Raised("ValueError: Unknown opcode number")
            ELSE LET opcode_str == opcode_names(ops)[opcode_byte[1]]
                     stored == unpack_i(operand_bytes)
                     operand ==
                        IF stored = 0 /\ opcode_str \notin {"PUSH", "JUMP", "JZ"}
                        THEN None ELSE PyInt(stored)
                 IN read_instructions(ops, bytes, num_instructions, i + 1,
                        pos + 5, Append(prog, Instr(opcode_str, operand)))

\* a load that looks at the version before the magic number
load_VersionFirst(ops, bytes) ==
    IF Len(read(bytes, 4, 1)) # 1 THEN Raised("struct.error")
    ELSE IF read(bytes, 4, 1)[1] # VERSION
    THEN Raised("ValueError: Unsupported version")
    ELSE IF read(bytes, 0, 4) # MAGIC
    THEN Raised("ValueError: Invalid file format")
    ELSE IF Len(read(bytes, 5, 4)) # 4 THEN Raised("struct.error")
    ELSE read_instructions(ops, bytes, unpack_I(read(bytes, 5, 4)), 0, 9,
                           <<>>)

\* Runtime.load on the bytes of an existing file: f.read(4), f.read(1),
\* f.read(4), then the records
load(ops, bytes) ==
    IF read(bytes, 0, 4) # MAGIC
    THEN Raised("ValueError: Invalid file format")
    ELSE IF Len(read(bytes, 4, 1)) # 1 THEN Raised("struct.error")
    ELSE IF read(bytes, 4, 1)[1] # VERSION
    THEN Raised("ValueError: Unsupported version")
    ELSE IF Len(read(bytes, 5, 4)) # 4 THEN Raised("struct.error")
    ELSE read_instructions(ops, bytes, unpack_I(read(bytes, 5, 4)), 0, 9,
                           <<>>)

\* an entry of the list Disassembler.load_bytecode returns
Entry(opcode_str, operand, opcode_num, raw_bytes) ==
    [opcode |-> opcode_str, operand |-> operand, opcode_num |-> opcode_num,
     raw_bytes |-> raw_bytes]

\* the loop of Disassembler.load_bytecode
RECURSIVE read_entries(_, _, _, _, _, _)
read_entries(ops, bytes, num_instructions, i, pos, prog) ==
    IF ~in_range(i, num_instructions) THEN Returned(prog)
    ELSE LET opcode_byte == read(bytes, pos, 1)
             operand_bytes == read(bytes, pos + 1, 4)
         IN IF Len(opcode_byte) # 1 \/ Len(operand_bytes) # 4
            THEN Raised("struct.error")
            ELSE IF opcode_byte[1] \notin DOMAIN opcode_names(ops)
            THEN Raised("ValueError: Unknown opcode number")
            ELSE LET opcode_str == opcode_names(ops)[opcode_byte[1]]
                     stored == unpack_i(operand_bytes)
                     operand ==
                        IF stored = 0 /\ opcode_str \notin {"PUSH", "JUMP", "JZ"}
                        THEN None ELSE PyInt(stored)
                 IN read_entries(ops, bytes, num_instructions, i + 1,
                        pos + 5,
                        Append(prog, Entry(opcode_str, operand, opcode_byte[1],
                                           opcode_byte \o operand_bytes)))

\* Disassembler.load_bytecode on the bytes of an existing file
load_bytecode(ops, bytes) ==
    IF read(bytes, 0, 4) # MAGIC
    THEN Raised("ValueError: Invalid file format")
    ELSE IF Len(read(bytes, 4, 1)) # 1 THEN Raised("struct.error")
    ELSE IF read(bytes, 4, 1)[1] # VERSION
    THEN Raised("ValueError: Unsupported version")
    ELSE IF Len(read(bytes, 5, 4)) # 4 THEN Raised("struct.error")
    ELSE read_entries(ops, bytes, unpack_I(read(bytes, 5, 4)), 0, 9, <<>>)

\* --------------------------------------------------------------- assembler
\* a source line after strip() and the removal of its comment: nothing, a
\* label declaration (the text before the closing colon), or a command (its
\* first word as written, and the rest of the line, None when there is none)
Blank == [kind |-> "blank", word |-> "", text |-> <<>>]
Label(name) == [kind |-> "label", word |-> "", text |-> name]
Command(word, rest) == [kind |-> "command", word |-> word, text |-> rest]

\* the mnemonic taken as written
upper_AsWritten(word) == word

\* str.upper on the words of the model's sources
UPPER == [push |-> "PUSH", jump |-> "JUMP", add |-> "ADD"]
upper(word) == IF word \in DOMAIN UPPER THEN UPPER[word] ELSE word

\* StackMachine.OPCODES is None: "opcode not in StackMachine.OPCODES" raises
\* TypeError
is_unset(ops) == DOMAIN ops = {}

\* what a parse gives: an exception or the program it returns, and the
\* label table as it stood then
Parsed(e, prog, labels) ==
    [err |-> e, returned |-> e = "", program |-> IF e = "" THEN prog ELSE <<>>,
     labels |-> labels]

\* pass 2 of LabelAwareProgramParser.parse_file from instruction i on
RECURSIVE second_pass(_, _, _, _)
second_pass(labels, instructions, i, prog) ==
    IF i > Len(instructions) THEN Parsed("", prog, labels)
    ELSE LET opcode == instructions[i].opcode
             operand_raw == instructions[i].operand
         IN IF IsNone(operand_raw)
            THEN second_pass(labels, instructions, i + 1,
                             Append(prog, Instr(opcode, None)))
            ELSE IF opcode \in {"JUMP", "JZ"}
                    /\ ~isdigit(lstrip(operand_raw, "-"))
            THEN IF operand_raw \notin DOMAIN labels
                 THEN Parsed("ValueError: Undefined label", prog, labels)
                 ELSE second_pass(labels, instructions, i + 1,
                          Append(prog, Instr(opcode, PyInt(labels[operand_raw]))))
            ELSE IF int(operand_raw).err # ""
            THEN Parsed("ValueError: Invalid operand", prog, labels)
            ELSE second_pass(labels, instructions, i + 1,
                     Append(prog, Instr(opcode, int(operand_raw).value)))

\* a first pass in which a second declaration of a label replaces the first
RECURSIVE first_pass_LastWins(_, _, _, _, _, _)
first_pass_LastWins(ops, lines, i, labels, instructions, address) ==
    IF i > Len(lines) THEN second_pass(labels, instructions, 1, <<>>)
    ELSE IF lines[i].kind = "blank"
    THEN first_pass_LastWins(ops, lines, i + 1, labels, instructions, address)
    ELSE IF lines[i].kind = "label"
    THEN IF lines[i].text = <<>>
         THEN Parsed("ValueError: Empty label name", <<>>, labels)
         ELSE first_pass_LastWins(ops, lines, i + 1,
                  DictSet(labels, lines[i].text, address), instructions,
                  address)
    ELSE IF is_unset(ops) THEN Parsed("TypeError", <<>>, labels)
    ELSE IF upper(lines[i].word) \notin DOMAIN ops
    THEN Parsed("ValueError: Unknown opcode", <<>>, labels)
    ELSE first_pass_LastWins(ops, lines, i + 1, labels,
             Append(instructions, Instr(upper(lines[i].word), lines[i].text)),
             address + 1)

\* pass 1 of LabelAwareProgramParser.parse_file from line i on, followed by
\* pass 2
RECURSIVE first_pass(_, _, _, _, _, _)
first_pass(ops, lines, i, labels, instructions, address) ==
    IF i > Len(lines) THEN second_pass(labels, instructions, 1, <<>>)
    ELSE IF lines[i].kind = "blank"
    THEN first_pass(ops, lines, i + 1, labels, instructions, address)
    ELSE IF lines[i].kind = "label"
    THEN IF lines[i].text = <<>>
         THEN Parsed("ValueError: Empty label name", <<>>, labels)
         ELSE IF lines[i].text \in DOMAIN labels
         THEN Parsed("ValueError: Duplicate label", <<>>, labels)
         ELSE first_pass(ops, lines, i + 1,
                  DictSet(labels, lines[i].text, address), instructions,
                  address)
    ELSE IF is_unset(ops) THEN Parsed("TypeError", <<>>, labels)
    ELSE IF upper(lines[i].word) \notin DOMAIN ops
    THEN Parsed("ValueError: Unknown opcode", <<>>, labels)
    ELSE first_pass(ops, lines, i + 1, labels,
             Append(instructions, Instr(upper(lines[i].word), lines[i].text)),
             address + 1)

\* LabelAwareProgramParser.parse_file on the lines of an existing file
parse_file(ops, lines) == first_pass(ops, lines, 1, EmptyDict, <<>>, 0)

\* the loop of ProgramParser.parse_file from line i on: a label declaration
\* is one more word that is no opcode
RECURSIVE parse_lines(_, _, _, _)
parse_lines(ops, lines, i, prog) ==
    IF i > Len(lines) THEN Parsed("", prog, EmptyDict)
    ELSE IF lines[i].kind = "blank"
    THEN parse_lines(ops, lines, i + 1, prog)
    ELSE IF is_unset(ops) THEN Parsed("TypeError", <<>>, EmptyDict)
    ELSE IF lines[i].kind = "label" \/ upper(lines[i].word) \notin DOMAIN ops
    THEN Parsed("ValueError: Unknown opcode", <<>>, EmptyDict)
    ELSE IF IsNone(lines[i].text)
    THEN parse_lines(ops, lines, i + 1,
                     Append(prog, Instr(upper(lines[i].word), None)))
    ELSE IF int(lines[i].text).err # ""
    THEN Parsed("ValueError: Invalid operand", <<>>, EmptyDict)
    ELSE parse_lines(ops, lines, i + 1,
             Append(prog, Instr(upper(lines[i].word), int(lines[i].text).value)))

\* ProgramParser.parse_file on the lines of an existing file
ProgramParser_parse_file(ops, lines) == parse_lines(ops, lines, 1, <<>>)

\* Compiler.compile of src/stackc.py in the package, which knows labels: the exception that
\* left it, the program it parsed, and the output file it leaves
compile(ops, lines, previous) ==
    LET p == parse_file(ops, lines)
        w == write_program(ops, p.program)
    IN IF p.err # ""
       THEN [err |-> p.err, program |-> <<>>, output |-> previous]
       ELSE [err |-> w.err, program |-> p.program, output |-> File(w.written)]

\* Compiler.compile of the top-level stackc.py, which parses with
\* ProgramParser
compile_plain(ops, lines, previous) ==
    LET p == ProgramParser_parse_file(ops, lines)
        w == write_program(ops, p.program)
    IN IF p.err # ""
       THEN [err |-> p.err, program |-> <<>>, output |-> previous]
       ELSE [err |-> w.err, program |-> p.program, output |-> File(w.written)]

\* ------------------------------------------------- assembling source files
\* the operand texts and label names of the model's sources: a name, a name
\* made of two dashes and a digit, a negative number, and 2^31
T_L == <<"L">>
T_DashDash2 == <<"-", "-", "2">>
T_Minus2 == <<"-", "2">>
T_0 == <<"0">>
T_5 == <<"5">>
T_2p31 == <<"2", "1", "4", "7", "4", "8", "3", "6", "4", "8">>

\* the lines sources are made of; WIDE is an opcode of one registry only
SourceLines ==
    {Blank, Label(T_L), Label(T_DashDash2), Label(<<>>),
     Command("PUSH", None), Command("PUSH", T_Minus2),
     Command("PUSH", T_2p31), Command("push", T_5), Command("PUSH", T_L),
     Command("ADD", None), Command("ADD", T_0),
     Command("JUMP", T_L), Command("JZ", T_L), Command("JUMP", T_DashDash2),
     Command("MOD", T_0), Command("WIDE", None)}

\* the sources the parsers are given, and the shorter ones the compilers
\* are given
Sources == SeqsUpTo(SourceLines, MaxLines)
ShortSources == SeqsUpTo(SourceLines, MaxProgLen)

\* LabelAwareProgramParser().parse_file(source)
Assemble(src) ==
    /\ result.op = ""
    /\ source' = src
    /\ \E p \in {parse_file(opcodes, src)} :
          result' = [result EXCEPT !.op = "parse_file", !.parser = "labels",
                                   !.err = p.err, !.returned = p.returned,
                                   !.program = p.program,
                                   !.labels = p.labels]
    /\ UNCHANGED <<machine_vars, output>>

\* ProgramParser.parse_file(source)
AssemblePlain(src) ==
    /\ result.op = ""
    /\ source' = src
    /\ \E p \in {ProgramParser_parse_file(opcodes, src)} :
          result' = [result EXCEPT !.op = "parse_file", !.parser = "plain",
                                   !.err = p.err, !.returned = p.returned,
                                   !.program = p.program,
                                   !.labels = p.labels]
    /\ UNCHANGED <<machine_vars, output>>

\* a parser is called once, with any of the sources
NextAssembler ==
    \/ result.op = "" /\ \E src \in Sources : Assemble(src)
    \/ result.op = "" /\ \E src \in Sources : AssemblePlain(src)

SpecAssembler == Init /\ [][NextAssembler]_vars

\* ------------------------------------------------ compiling and loading
\* OpcodeRegistry(): _load_extensions over the files in the order listdir
\* gave them, from file i on
RECURSIVE load_listing(_, _, _, _)
load_listing(ops, exts, listing, i) ==
    IF i > Len(listing) THEN [opcodes |-> ops, extensions |-> exts]
    ELSE LET r == load_extension_file(ops, exts, listing[i])
         IN load_listing(r.opcodes, r.extensions, listing, i + 1)

\* the extensions directories of the tools: three shipped modules; a MOD
\* that takes an operand; a module whose code needs two bytes
Listings == {<<"mod", "neg", "eq">>, <<"mod_alt", "eq">>, <<"wide">>}

\* what the output path holds before the compiler runs: nothing, or the
\* file an earlier compile of an empty source left
OldOutputs == {NoFile, File(write_program(BASE_OPCODES, <<>>).written)}

\* the 5-byte records of the files given to the loaders: PUSH 5, PUSH -2,
\* ADD with 0 and with 7, the code 0x11 with 0, and the unused code 0xAA
Records ==
    {<<1, 5, 0, 0, 0>>, <<1, 254, 255, 255, 255>>, <<3, 0, 0, 0, 0>>,
     <<3, 7, 0, 0, 0>>, <<17, 0, 0, 0, 0>>, <<170, 0, 0, 0, 0>>}

RECURSIVE Flatten(_)
Flatten(recs) == IF recs = <<>> THEN <<>> ELSE Head(recs) \o Flatten(Tail(recs))

Bodies == SeqsUpTo(Records, MaxProgLen)

\* magic numbers, version bytes and counts of the files: the right ones, a
\* wrong magic, the version 99, and a count one less or one more than the
\* records that follow
Magics == {MAGIC, <<88, 88, 88, 88>>}
Versions == {VERSION, 99}
Counts(n) == {c \in {n - 1, n, n + 1} : c >= 0}

\* what may follow the records: nothing, one byte, one more record
Extras == {<<>>, <<0>>, <<3, 0, 0, 0, 0>>}

\* the files given to the loaders, and every file cut short
ByteStrings ==
    LET whole == UNION {{m \o <<v>> \o pack_I(c).bytes \o Flatten(b) \o x :
                           m \in Magics, v \in Versions,
                           c \in Counts(Len(b)), x \in Extras} :
                        b \in Bodies}
        right == {MAGIC \o <<VERSION>> \o pack_I(Len(b)).bytes \o Flatten(b) :
                    b \in Bodies}
    IN whole
       \cup UNION {{SubSeq(f, 1, k) : k \in 0..Len(f)} : f \in right}
       \cup {MAGIC \o <<VERSION>> \o <<255, 255, 255, 255>> \o Flatten(b) :
                b \in Bodies}

InitCodec ==
    /\ MachineInit
    /\ \E listing \in Listings :
          \E r \in {load_listing(BASE_OPCODES, NO_EXTENSIONS, listing, 1)} :
             /\ opcodes = r.opcodes
             /\ extensions = r.extensions
    /\ output \in OldOutputs

\* Compiler().compile(source, output) of the package's stackc.py
Compile(src) ==
    /\ result.op = ""
    /\ source' = src
    /\ \E c \in {compile(opcodes, src, output)} :
          /\ output' = c.output
          /\ result' = [result EXCEPT !.op = "compile", !.parser = "labels",
                                      !.err = c.err, !.program = c.program,
                                      !.compiled = IF c.err = "" THEN "ok"
                                                   ELSE c.err,
                                      !.encoded = c.program,
                                      !.previous = output]
    /\ UNCHANGED machine_vars

\* Compiler().compile(source, output) of the top-level stackc.py
CompilePlain(src) ==
    /\ result.op = ""
    /\ source' = src
    /\ \E c \in {compile_plain(opcodes, src, output)} :
          /\ output' = c.output
          /\ result' = [result EXCEPT !.op = "compile", !.parser = "plain",
                                      !.err = c.err, !.program = c.program,
                                      !.compiled = IF c.err = "" THEN "ok"
                                                   ELSE c.err,
                                      !.encoded = c.program,
                                      !.previous = output]
    /\ UNCHANGED machine_vars

\* a bytecode file that no compile of this session wrote
WriteBytes(bytes) ==
    /\ result.op = ""
    /\ output' = File(bytes)
    /\ result' = [result EXCEPT !.op = "write", !.previous = output]
    /\ UNCHANGED <<machine_vars, source>>

\* Runtime().load(output)
Load ==
    /\ result.op \in {"compile", "write"}
    /\ \E r \in {IF output.exists THEN load(opcodes, output.bytes)
                 ELSE Raised("FileNotFoundError")} :
          result' = [result EXCEPT !.op = "load", !.err = r.err,
                                   !.returned = r.returned,
                                   !.program = r.program]
    /\ UNCHANGED <<machine_vars, source, output>>

\* Disassembler().load_bytecode(output)
LoadBytecode ==
    /\ result.op \in {"compile", "write"}
    /\ \E r \in {IF output.exists THEN load_bytecode(opcodes, output.bytes)
                 ELSE Raised("FileNotFoundError")} :
          result' = [result EXCEPT !.op = "load_bytecode", !.err = r.err,
                                   !.returned = r.returned,
                                   !.program = r.program]
    /\ UNCHANGED <<machine_vars, source, output>>

\* a compiler is called once, or a file is put at the output path; then the
\* loaders read it
NextCodec ==
    \/ result.op = "" /\ \E src \in ShortSources : Compile(src)
    \/ result.op = "" /\ \E src \in ShortSources : CompilePlain(src)
    \/ result.op = "" /\ \E bytes \in ByteStrings : WriteBytes(bytes)
    \/ Load
    \/ LoadBytecode

SpecCodec == InitCodec /\ [][NextCodec]_vars

\* ---------------------------------------------------------- disassembler
\* A line of text is a sequence of pieces: a word of letters (a mnemonic, a
\* word of a comment, a file name) or one other character.

\* len() of the mnemonics
strlen(name) ==
    CASE name \in {"JZ", "EQ", "LT", "GT"} -> 2
      [] name \in {"POP", "ADD", "SUB", "MUL", "DIV", "DUP", "MOD", "NEG",
                   "NEQ", "LTE", "GTE", "ROT"} -> 3
      [] name \in {"PUSH", "SWAP", "JUMP", "HALT", "OVER", "PEEK",
                   "WIDE"} -> 4
      [] name \in {"PRINT", "DEPTH"} -> 5

\* the decimal text of the magnitude only
str_NoSign(n) == MagText(Magnitude(n) \o <<0, 0>>, 5, TRUE)

\* str(n), as the f-string formats an operand
str(n) ==
    (IF n < 0 THEN <<"-">> ELSE <<>>)
        \o MagText(Magnitude(n) \o <<0, 0>>, 5, TRUE)

\* format(n, '0wx'): n in hexadecimal, in at least w characters
RECURSIVE hex(_, _)
hex(n, w) ==
    LET ch(k) == <<"0", "1", "2", "3", "4", "5", "6", "7", "8", "9", "a",
                   "b", "c", "d", "e", "f">>[k + 1]
    IN IF n < 16 /\ w <= 1 THEN <<ch(n)>>
       ELSE hex(n \div 16, w - 1) \o <<ch(n % 16)>>

\* ' '.join of the bytes in hexadecimal
RECURSIVE hex_bytes(_)
hex_bytes(raw_bytes) ==
    IF raw_bytes = <<>> THEN <<>>
    ELSE hex(Head(raw_bytes), 2)
         \o (IF Len(raw_bytes) > 1 THEN <<" ">> ELSE <<>>)
         \o hex_bytes(Tail(raw_bytes))

Spaces(n) == [i \in 1..n |-> " "]

HEADER_SIZE == 9
INSTRUCTION_SIZE == 5

\* the modes of the disassembler: no comment, the file offset, or the
\* offset with the bytes and the code
DisasmModes == {"plain", "address", "verbose"}

\* the line disassemble writes for entry e, the instr_num-th of the file
instruction_line(e, instr_num, mode) ==
    LET byte_offset == HEADER_SIZE + instr_num * INSTRUCTION_SIZE
        instruction ==
            IF IsNone(e.operand) THEN <<e.opcode>>
            ELSE <<e.opcode, " ">> \o str(IntOf(e.operand))
        width == strlen(e.opcode) + Len(instruction) - 1
        padded == instruction
                    \o Spaces(IF width < 20 THEN 20 - width ELSE 0)
        at == <<"#", " ", "@", "0", "x">> \o hex(byte_offset, 4)
    IN CASE mode = "verbose" ->
              padded \o <<" ">> \o at \o <<":", " ">>
                  \o hex_bytes(e.raw_bytes)
                  \o <<" ", "(", "op", "=", "0", "x">>
                  \o hex(e.opcode_num, 2) \o <<")">>
         [] mode = "address" -> padded \o <<" ">> \o at
         [] OTHER -> instruction

\* the lines of the text disassemble writes for the entries load_bytecode
\* returned
disassemble(entries, bytecode_file, mode) ==
    <<<<"#", " ", "Disassembled", " ", "from", " ", bytecode_file>>,
      <<"#", " ">> \o str(Len(entries)) \o <<" ", "instructions">>,
      <<>>>>
        \o [i \in 1..Len(entries) |->
               instruction_line(entries[i], i - 1, mode)]

\* str.strip on a line
RECURSIVE strip(_)
strip(line) ==
    IF line = <<>> THEN line
    ELSE IF Head(line) = " " THEN strip(Tail(line))
    ELSE IF line[Len(line)] = " " THEN strip(SubSeq(line, 1, Len(line) - 1))
    ELSE line

\* the first position of piece c in the line, 0 if there is none
find(line, c) ==
    IF \E i \in 1..Len(line) : line[i] = c
    THEN CHOOSE i \in 1..Len(line) :
            line[i] = c /\ \A j \in 1..(i - 1) : line[j] # c
    ELSE 0

\* what the first pass makes of one line of text whose first word is one
\* piece: blank and comment lines, the cut of an inline comment, a label,
\* and the split into mnemonic and operand
read_line(text) ==
    LET line == strip(text) IN
    IF line = <<>> \/ Head(line) = "#" THEN Blank
    ELSE LET code == IF find(line, "#") > 0
                     THEN strip(SubSeq(line, 1, find(line, "#") - 1))
                     ELSE line
         IN IF code[Len(code)] = ":"
            THEN Label(strip(SubSeq(code, 1, Len(code) - 1)))
            ELSE IF find(code, " ") = 0 THEN Command(code[1], None)
            ELSE Command(code[1],
                         strip(SubSeq(code, find(code, " "), Len(code))))

read_lines(text) == [i \in 1..Len(text) |-> read_line(text[i])]

\* Disassembler().disassemble(output, recovered, mode): the text file it
\* writes, as the compiler will read it
Disassemble(mode) ==
    /\ result.op = "compile"
    /\ \E r \in {IF output.exists THEN load_bytecode(opcodes, output.bytes)
                 ELSE Raised("FileNotFoundError")} :
          /\ result' = [result EXCEPT !.op = "disassemble", !.parser = mode,
                                      !.err = r.err, !.returned = r.returned,
                                      !.program = r.program]
          /\ source' = IF r.err = ""
                       THEN read_lines(disassemble(r.program, "program.stkm",
                                                   mode))
                       ELSE source
    /\ UNCHANGED <<machine_vars, output>>

\* Compiler().compile(recovered, output): the recovered text is compiled
\* onto the path of the file it was disassembled from
Recompile ==
    /\ result.op = "disassemble" /\ result.err = ""
    /\ \E c \in {compile(opcodes, source, output)} :
          /\ output' = c.output
          /\ result' = [result EXCEPT !.op = "recompile", !.err = c.err,
                                      !.program = c.program,
                                      !.previous = output]
    /\ UNCHANGED <<machine_vars, source>>

\* a source is compiled, the file disassembled in one of the modes, and the
\* text compiled again
NextRoundTrip ==
    \/ result.op = "" /\ \E src \in ShortSources : Compile(src)
    \/ result.op = "compile" /\ \E mode \in DisasmModes : Disassemble(mode)
    \/ Recompile

SpecRoundTrip == Init /\ [][NextRoundTrip]_vars

\* ------------------------------------------------- running parsed sources
\* the lines of the sources that are parsed and then run
RunLines ==
    {Label(T_L), Command("PUSH", None), Command("PUSH", T_Minus2),
     Command("push", T_5), Command("ADD", None), Command("PRINT", None),
     Command("JZ", T_L), Command("JUMP", T_Minus2)}

RunSources == SeqsUpTo(RunLines, MaxProgLen)

ClientAssemble == result.op = "" /\ \E src \in RunSources : Assemble(src)

ClientAssemblePlain ==
    result.op = "" /\ \E src \in RunSources : AssemblePlain(src)

\* a get_registry that makes a new registry, which has read no extension
get_registry_Rebuilds(ops, exts) ==
    [opcodes |-> BASE_OPCODES, extensions |-> NO_EXTENSIONS]

\* get_registry(): the global registry, constructed from extensions/ by
\* the first call
get_registry(ops, exts) ==
    IF DOMAIN ops = {}
    THEN [opcodes |-> LOADED_OPCODES, extensions |-> EXTENSION_MODULES]
    ELSE [opcodes |-> ops, extensions |-> exts]

\* the first StackMachine() of the process: _init_opcodes sets the class
\* attribute from the registry, which get_registry() constructs
Construct ==
    /\ phase = "start"
    /\ phase' = "new"
    /\ \E reg \in {get_registry(opcodes, extensions)} :
          /\ opcodes' = reg.opcodes
          /\ extensions' = reg.extensions
    /\ UNCHANGED <<program, stack, pc, running, instruction_count,
                   cycle_count, stdout, trace, step, cur, error, pre, last,
                   hist, interrupted, calls, runs, attempt, tool_vars, peer>>

\* the program a parser returned is loaded into a new machine
ClientLoadParsed ==
    /\ phase = "new"
    /\ result.op = "parse_file" /\ result.returned
    /\ load_program(result.program)

\* a client that parses a source and runs the program it gets: main(),
\* which parses before it constructs the machine, and a client that
\* constructs the machine first
NextSourceRun ==
    \/ Construct
    \/ ClientAssemble
    \/ ClientAssemblePlain
    \/ ClientLoadParsed
    \/ ClientRun
    \/ LoopExit
    \/ FetchFail
    \/ Fetch
    \/ Dispatch

SpecSourceRun == InitMain /\ [][NextSourceRun]_vars

\* ------------------------------------------------------------- one run
\* a client that loads a program into a new machine and runs it in any
\* mode, the user at the keyboard in step mode
NextRun ==
    \/ ClientLoad
    \/ ClientExecute
    \/ LoopExit
    \/ FetchFail
    \/ Fetch
    \/ Continue
    \/ Interrupt
    \/ EndOfInput
    \/ Dispatch

SpecRun == Init /\ [][NextRun]_vars

\* execute() without trace as one computation: the machine after at most k
\* more dispatches from the run r, the dispatches so far, and how the run
\* stands ("loop" while it can go on)
RECURSIVE run_plain(_, _, _, _)
run_plain(r, prog, exts, k) ==
    IF r.status # "loop" THEN r
    ELSE IF ~loop_condition(r.m, prog) THEN [r EXCEPT !.status = "returned"]
    ELSE IF list_index(prog, r.m.pc) = 0
    THEN [r EXCEPT !.status = "raised", !.m = Raise(r.m, "IndexError")]
    ELSE IF k = 0 THEN r
    ELSE LET i == prog[list_index(prog, r.m.pc)]
             d == loop_body(r.m, exts, i.opcode, i.operand)
         IN run_plain([m |-> d,
                       hist |-> Append(r.hist, [at |-> r.m.pc,
                                                opcode |-> i.opcode,
                                                err |-> d.err]),
                       status |-> IF d.err # "" THEN "raised" ELSE "loop"],
                      prog, exts, k - 1)

\* the first k dispatches of execute() on a new machine with this program
execute_plain(prog, exts, k) ==
    run_plain([m |-> [stack |-> <<>>, pc |-> 0, running |-> TRUE,
                      instruction_count |-> 0, cycle_count |-> 0,
                      stdout |-> <<>>, err |-> ""],
               hist |-> <<>>, status |-> "loop"],
              prog, exts, k)

\* ----------------------------------------------- two machines, one registry
\* the sources the first machine's program is compiled from, and the
\* programs the second machine is given
SharedLines ==
    {Command("PUSH", T_Minus2), Command("NEG", None), Command("PRINT", None),
     Command("ADD", None)}

SharedSources == SeqsUpTo(SharedLines, MaxProgLen)

PeerPrograms ==
    SeqsUpTo({Instr("PUSH", PyInt(2)), Instr("NEG", None),
              Instr("HALT", None)}, MaxProgLen)

\* stackc: the source is assembled and encoded into the output file
ToolCompile == result.op = "" /\ \E src \in SharedSources : Compile(src)

\* Runtime.run: the program decoded from the file is loaded into the
\* Runtime's machine
ClientLoadDecoded ==
    /\ phase = "new"
    /\ result.op = "load" /\ result.returned
    /\ load_program(result.program)

\* StackMachine() a second time in the process
PeerConstruct ==
    /\ ~peer.made
    /\ \E reg \in {get_registry(opcodes, extensions)} :
          /\ opcodes' = reg.opcodes
          /\ extensions' = reg.extensions
    /\ peer' = NewPeer
    /\ UNCHANGED <<program, stack, pc, running, instruction_count,
                   cycle_count, stdout, trace, step, phase, cur, error, pre,
                   last, hist, interrupted, calls, runs, attempt, tool_vars>>

\* load_program on the second machine
PeerLoad(p) ==
    /\ peer.made /\ ~peer.loaded
    /\ peer' = [peer EXCEPT !.loaded = TRUE, !.program = p]
    /\ UNCHANGED <<program, stack, pc, running, instruction_count,
                   cycle_count, stdout, trace, step, phase, cur, error, pre,
                   last, hist, interrupted, calls, runs, attempt, opcodes,
                   extensions, tool_vars>>

\* execute() on the second machine up to the first test of the loop
\* condition
PeerExecute ==
    /\ peer.made /\ peer.loaded /\ peer.run.status = "idle"
    /\ LET m == [peer.run.m EXCEPT !.running = TRUE, !.pc = 0,
                                   !.instruction_count = 0,
                                   !.cycle_count = 0]
       IN peer' = [peer EXCEPT
                     !.run = Run(m, <<>>, IF loop_condition(m, peer.program)
                                          THEN "loop" ELSE "returned"),
                     !.began = Len(hist)]
    /\ UNCHANGED <<program, stack, pc, running, instruction_count,
                   cycle_count, stdout, trace, step, phase, cur, error, pre,
                   last, hist, interrupted, calls, runs, attempt, opcodes,
                   extensions, tool_vars>>

\* one iteration of the second machine's loop and the test that follows it
PeerStep ==
    /\ peer.made /\ peer.run.status = "loop"
    /\ peer' = [peer EXCEPT
                   !.run = run_plain(peer.run, peer.program, extensions, 1)]
    /\ UNCHANGED <<program, stack, pc, running, instruction_count,
                   cycle_count, stdout, trace, step, phase, cur, error, pre,
                   last, hist, interrupted, calls, runs, attempt, opcodes,
                   extensions, tool_vars>>

\* a process that compiles a source, loads the file and runs the program
\* while a second machine of the process runs another program
NextShared ==
    \/ ToolCompile
    \/ Load
    \/ ClientLoadDecoded
    \/ ClientRun
    \/ LoopExit
    \/ Fetch
    \/ Dispatch
    \/ PeerConstruct
    \/ peer.made /\ ~peer.loaded /\ \E p \in PeerPrograms : PeerLoad(p)
    \/ PeerExecute
    \/ PeerStep

SpecShared == Init /\ [][NextShared]_vars

\* -------------------------------------------------- straight-line runs
\* the instructions that neither jump nor belong to an extension; NOP is
\* no opcode at all
StraightInstrs ==
    {Instr("PUSH", PyInt(v)) : v \in Vals}
        \cup {Instr(o, None) : o \in NoOperandOps \cup {"NOP"}}

StraightPrograms == SeqsUpTo(StraightInstrs, MaxProgLen)

ClientLoadStraight ==
    phase = "new" /\ \E p \in StraightPrograms : load_program(p)

\* execute() with or without trace, never waiting for a key
ClientExecuteFree == phase = "loaded" /\ \E tr \in BOOLEAN : execute(tr, FALSE)

\* the steps of the interpreter's loop
LoopStep == LoopExit \/ Fetch \/ Dispatch

NextStraight ==
    \/ ClientLoadStraight
    \/ ClientExecuteFree
    \/ LoopExit
    \/ Fetch
    \/ Dispatch

\* execute() runs in one thread that nothing suspends: a step of the loop
\* that can be taken is taken
SpecStraight == Init /\ [][NextStraight]_vars /\ WF_vars(LoopStep)

\* ------------------------------------------------------- wide arithmetic
\* operands at the ends of the 'i' range and small ones
WideVals == {0 - INT_MAX - 1, -2, 3, INT_MAX}

\* PUSH a; PUSH b; one of ADD, SUB, MUL; and instructions that only read or
\* copy the result
WidePrograms ==
    {<<Instr("PUSH", PyInt(a)), Instr("PUSH", PyInt(b)), Instr(op, None)>>
         \o tail :
       a \in WideVals, b \in WideVals, op \in {"ADD", "SUB", "MUL"},
       tail \in SeqsUpTo({Instr("DUP", None), Instr("PRINT", None)},
                         MaxProgLen - 1)}

ClientLoadWide == phase = "new" /\ \E p \in WidePrograms : load_program(p)

\* a client that runs one arithmetic instruction on operands of the
\* 'i' range
NextWide ==
    \/ ClientLoadWide
    \/ ClientRun
    \/ LoopExit
    \/ Fetch
    \/ Dispatch

SpecWide == Init /\ [][NextWide]_vars

\* ================================================================= claims
\* the last dispatch of this run, read from the history variables
Dispatched == Len(hist) > 0

Succeeded == Dispatched /\ last.after.err = ""

Before == last.before.stack

Depth == Len(last.before.stack)

\* the operands of a binary instruction: b is the top, a lies under it
TopB == IntOf(Before[Depth])

TopA == IntOf(Before[Depth - 1])

Below(n) == SubSeq(Before, 1, Depth - n)

Pushed == IntOf(last.after.stack[Len(last.after.stack)])

\* the values PRINT has emitted among the printed lines
Outputs(lines) == SelectSeq(lines, LAMBDA l : l.kind = "Output")

\* q is the quotient of a by b rounded toward negative infinity: the
\* remainder a - q*b is 0 or has the sign of b and is smaller than b
IsFloorQuot(q, a, b) ==
    LET r == a - q * b IN
    IF b > 0 THEN 0 <= r /\ r < b ELSE b < r /\ r <= 0

JumpTaken ==
    \/ last.opcode = "JUMP"
    \/ last.opcode = "JZ" /\ Depth > 0 /\ Before[Depth] = PyInt(0)

ExpectedNext == IF JumpTaken THEN IntOf(last.operand) ELSE last.at + 1

\* C1 (as claimed): whenever pc is outside [0, len(program)) the run stops
\* normally: every instruction fetched or dispatched was fetched at an
\* address inside the program, and no fetch raises an error.
C1_OutOfRangePcStops ==
    /\ phase \in {"paused", "exec"} =>
           cur.at >= 0 /\ cur.at < Len(program)
    /\ \A i \in 1..Len(hist) : hist[i].at >= 0 /\ hist[i].at < Len(program)
    /\ error.where # "fetch"

\* C2: after an instruction that executed without error and is not HALT (in
\* a run no interrupt has stopped), pc - and the address of the next fetch,
\* if there is one - is the operand t for JUMP and for a JZ that popped 0,
\* and the dispatched address plus 1 otherwise.
C2_NextAddress ==
    (Succeeded /\ last.opcode # "HALT" /\ ~interrupted) =>
        /\ pc = ExpectedNext
        /\ phase \in {"paused", "exec"} => cur.at = ExpectedNext

\* a JZ that popped 0 was followed by a fetch at its target, which is not
\* the address after the JZ
C2_Witness ==
    /\ Succeeded /\ ~interrupted
    /\ last.opcode = "JZ" /\ JumpTaken
    /\ phase = "exec"
    /\ cur.at = IntOf(last.operand)
    /\ cur.at # last.at + 1

\* C3: HALT is terminal: a dispatched HALT is the last dispatch of its run,
\* the running flag is false, no error is raised, execute() is at its loop
\* test or has returned, and the stack, pc, counters and printed lines are
\* those the HALT step left.
C3_HaltTerminal ==
    \A i \in 1..Len(hist) :
        hist[i].opcode = "HALT" =>
            /\ i = Len(hist)
            /\ ~running
            /\ error = NoError
            /\ phase \in {"loop", "returned"}
            /\ Machine = last.after

\* execute() returned after a HALT that has instructions after it
C3_Witness ==
    /\ phase = "returned"
    /\ Dispatched /\ last.opcode = "HALT"
    /\ last.at >= 0 /\ last.at + 1 < Len(program)
    /\ pc = last.at

\* C4 (as claimed): once an interrupt has been received at a pause, the
\* stack, the PRINT outputs, the counters and pc stay exactly as they were
\* when that pause began.
C4_InterruptSkipsInstruction ==
    interrupted =>
        /\ stack = pre.stack
        /\ pc = pre.pc
        /\ instruction_count = pre.instruction_count
        /\ cycle_count = pre.cycle_count
        /\ Outputs(stdout) = Outputs(pre.stdout)

\* C5: an instruction that fails aborts the run at once: only the last
\* dispatch can have failed, and then the exception has left execute() and
\* pc is the address the failing instruction was fetched at.
C5_AbortAtFailingInstruction ==
    /\ \A i \in 1..(Len(hist) - 1) : hist[i].err = ""
    /\ (Dispatched /\ hist[Len(hist)].err # "") =>
           /\ phase = "raised"
           /\ error = [type |-> hist[Len(hist)].err, where |-> "dispatch"]
           /\ pc = hist[Len(hist)].at
           /\ instruction_count = Len(hist)

\* a division by zero aborted a run that had an instruction left to execute
C5_Witness ==
    /\ phase = "raised"
    /\ error = [type |-> "ZeroDivisionError", where |-> "dispatch"]
    /\ pc >= 0 /\ pc + 1 < Len(program)

\* C6 (as claimed): a base instruction that fails on underflow or division
\* by zero leaves the stack as it was before the instruction began.
C6_FailureLeavesStack ==
    (/\ Dispatched
     /\ last.opcode \in BaseNames
     /\ last.after.err \in {"IndexError", "ZeroDivisionError"}) =>
        last.after.stack = last.before.stack

\* C7: DIV on a stack [..., a, 0] fails with ZeroDivisionError and leaves
\* the stack without a result (a and 0 are popped, nothing is pushed); and
\* DIV fails with ZeroDivisionError only when the top element is 0.
C7_DivByZero ==
    (Dispatched /\ last.opcode = "DIV") =>
        /\ (Depth >= 2 /\ Before[Depth] = PyInt(0)) =>
               /\ last.after.err = "ZeroDivisionError"
               /\ last.after.stack = Below(2)
        /\ last.after.err = "ZeroDivisionError" =>
               Depth >= 1 /\ Before[Depth] = PyInt(0)

\* DIV failed on a non-zero dividend over 0
C7_Witness ==
    /\ Dispatched /\ last.opcode = "DIV"
    /\ last.after.err = "ZeroDivisionError"
    /\ Depth >= 2 /\ TopA # 0

\* C8: ADD, SUB, MUL and DIV that succeed on [..., a, b] leave the elements
\* below a unchanged and push one value: a + b, a - b, a * b, and for DIV
\* the quotient of a by b (not of b by a).
C8_ArithmeticOrder ==
    (Succeeded /\ last.opcode \in {"ADD", "SUB", "MUL", "DIV"}) =>
        /\ Depth >= 2
        /\ Len(last.after.stack) = Depth - 1
        /\ SubSeq(last.after.stack, 1, Depth - 2) = Below(2)
        /\ last.opcode = "ADD" => Pushed = TopA + TopB
        /\ last.opcode = "SUB" => Pushed = TopA - TopB
        /\ last.opcode = "MUL" => Pushed = TopA * TopB
        /\ last.opcode = "DIV" => IsFloorQuot(Pushed, TopA, TopB)

\* SUB succeeded on distinct operands with an element below them
C8_Witness ==
    /\ Succeeded /\ last.opcode = "SUB"
    /\ Depth >= 3
    /\ TopA - TopB # TopB - TopA

\* C9: a DIV that succeeds pushes the floor of a / b for operands of either
\* sign: the quotient times b is the nearest multiple of b at or below a
\* (b > 0) or at or above a (b < 0), never the quotient rounded toward zero.
C9_FloorDivision ==
    (Succeeded /\ last.opcode = "DIV") =>
        /\ IsFloorQuot(Pushed, TopA, TopB)
        /\ ((TopA < 0) # (TopB < 0) /\ Pushed * TopB # TopA) => Pushed < 0

\* DIV succeeded on a negative dividend that its positive divisor does not
\* divide, where flooring and truncating differ
C9_Witness ==
    /\ Succeeded /\ last.opcode = "DIV"
    /\ TopA < 0 /\ TopB > 0
    /\ Pushed * TopB # TopA

\* C10: a PRINT that succeeds emits the top value as one output line and
\* removes it: the stack is the old stack without its top.
C10_PrintPops ==
    (Succeeded /\ last.opcode = "PRINT") =>
        /\ Depth >= 1
        /\ last.after.stack = Below(1)
        /\ last.after.stdout =
               Append(last.before.stdout, Line("Output", Before[Depth]))

\* PRINT succeeded on a stack of two or more elements
C10_Witness ==
    /\ Succeeded /\ last.opcode = "PRINT"
    /\ Depth >= 2

\* C11 (as claimed): a PRINT that succeeds emits the top value and leaves
\* the stack unchanged, the printed value still on top.
C11_PrintKeepsTop ==
    (Succeeded /\ last.opcode = "PRINT") =>
        /\ Outputs(last.after.stdout) =
               Append(Outputs(last.before.stdout), Line("Output", Before[Depth]))
        /\ last.after.stack = last.before.stack

\* C12: a JZ that succeeds on [..., x, v] leaves [..., x], whether or not it
\* jumps; and (while no interrupt has cleared the running flag) it jumps,
\* leaving pc at its operand, when v is 0, and falls through to the next
\* address when v is not 0.
C12_JzConsumesOne ==
    (Succeeded /\ last.opcode = "JZ") =>
        /\ Depth >= 1
        /\ last.after.stack = Below(1)
        /\ last.before.running =>
               /\ TopB = 0 => last.after.pc = IntOf(last.operand)
               /\ TopB # 0 => last.after.pc = last.at + 1

\* JZ fell through on a non-zero top with an element under it, and its
\* operand is not the address it fell through to
C12_Witness ==
    /\ Succeeded /\ last.opcode = "JZ"
    /\ Depth >= 2 /\ TopB # 0
    /\ last.before.running
    /\ IntOf(last.operand) # last.at + 1

\* the value pc holds after a dispatch if the instruction itself left it
\* alone: the loop adds 1 unless the running flag is clear
PcUntouched ==
    IF last.before.running THEN last.before.pc + 1 ELSE last.before.pc

\* C13: on success PUSH x appends x, POP removes the top, DUP appends a copy
\* of the top and SWAP exchanges the top two; the elements below are
\* unchanged, pc is only advanced by the loop, and the program still holds
\* the dispatched instruction at the address it was fetched from.
C13_StackOpEffects ==
    (Succeeded /\ last.opcode \in {"PUSH", "POP", "DUP", "SWAP"}) =>
        /\ last.opcode = "PUSH" =>
               last.after.stack = Append(Before, last.operand)
        /\ last.opcode = "POP" =>
               Depth >= 1 /\ last.after.stack = Below(1)
        /\ last.opcode = "DUP" =>
               Depth >= 1 /\ last.after.stack = Append(Before, Before[Depth])
        /\ last.opcode = "SWAP" =>
               /\ Depth >= 2
               /\ last.after.stack =
                      Below(2) \o <<Before[Depth], Before[Depth - 1]>>
        /\ last.after.pc = PcUntouched
        /\ program[list_index(program, last.at)] =
               Instr(last.opcode, last.operand)

\* SWAP succeeded on two different values with an element below them
C13_Witness ==
    /\ Succeeded /\ last.opcode = "SWAP"
    /\ Depth >= 3
    /\ Before[Depth] # Before[Depth - 1]

\* the cost the cost table declares for an opcode; any other opcode counts 1
DeclaredCost(opcode) ==
    CASE opcode \in {"PUSH", "POP", "DUP", "SWAP", "ADD", "SUB", "HALT"} -> 1
      [] opcode = "MUL" -> 3
      [] opcode = "DIV" -> 10
      [] opcode \in {"JUMP", "JZ"} -> 2
      [] opcode = "PRINT" -> 5
      [] OTHER -> 1

\* the declared costs of the first n dispatches of this run, added up
RECURSIVE SumCosts(_)
SumCosts(n) ==
    IF n = 0 THEN 0
    ELSE DeclaredCost(hist[n].opcode) + SumCosts(n - 1)

\* C18: at every point of a run instruction_count is the number of
\* instructions dispatched since execute() began, cycle_count is the sum of
\* their declared costs, and instruction_count <= cycle_count <=
\* 10 * instruction_count.
C18_Counters ==
    /\ instruction_count = Len(hist)
    /\ cycle_count = SumCosts(Len(hist))
    /\ instruction_count <= cycle_count
    /\ cycle_count <= 10 * instruction_count

\* two instructions were dispatched, a DIV among them, and the cycle counter
\* is ahead of the instruction counter by more than DIV's cost alone
C18_Witness ==
    /\ Len(hist) = 2
    /\ \E i \in 1..2 : hist[i].opcode = "DIV"
    /\ cycle_count > 11

\* ------------------------------------------------------ the Stack's calls
IsPush(i) == calls[i].op = "push"

IsPopped(i) == calls[i].op = "pop" /\ calls[i].err = ""

SetMax(S) == CHOOSE x \in S : \A y \in S : y <= x

\* the pushes among the first i calls whose value no pop has taken yet,
\* where each successful pop takes the latest of them
RECURSIVE Unpopped(_)
Unpopped(i) ==
    IF i = 0 THEN {}
    ELSE LET u == Unpopped(i - 1) IN
         IF IsPush(i) THEN u \cup {i}
         ELSE IF IsPopped(i) /\ u # {} THEN u \ {SetMax(u)}
         ELSE u

Pushes(i) == Cardinality({j \in 1..i : IsPush(j)})

Pops(i) == Cardinality({j \in 1..i : IsPopped(j)})

\* C14: under any interleaving of push, pop and peek each successful pop
\* returns the most recently pushed value not yet popped, and after every
\* call size() is the number of pushes minus the number of successful pops.
C14_Lifo ==
    /\ \A i \in 1..Len(calls) :
          /\ IsPopped(i) =>
                 /\ Unpopped(i - 1) # {}
                 /\ calls[i].value = calls[SetMax(Unpopped(i - 1))].arg
          /\ size(calls[i].after) = Pushes(i) - Pops(i)
    /\ phase = "new" => size(stack) = Pushes(Len(calls)) - Pops(Len(calls))

\* two pops succeeded with a push between them, the first on a stack of two
\* different values
C14_Witness ==
    \E i, j \in 1..Len(calls) :
        /\ i + 1 < j
        /\ IsPopped(i) /\ IsPopped(j)
        /\ IsPush(i + 1)
        /\ Len(calls[i].before) = 2
        /\ calls[i].before[1] # calls[i].before[2]

\* C15: pop() and peek() on an empty stack raise IndexError and leave the
\* stack empty; peek() on a non-empty stack returns the top and leaves the
\* contents unchanged; push never fails, and adds its argument on top.
C15_EmptyAndPeek ==
    \A i \in 1..Len(calls) :
        LET c == calls[i] IN
        /\ (c.op \in {"pop", "peek"} /\ c.before = <<>>) =>
               c.err = "IndexError" /\ c.after = <<>>
        /\ (c.op = "peek" /\ c.before # <<>>) =>
               /\ c.err = ""
               /\ c.value = c.before[Len(c.before)]
               /\ c.after = c.before
        /\ c.op = "push" =>
               c.err = "" /\ c.after = Append(c.before, c.arg)
        /\ i < Len(calls) => calls[i + 1].before = c.after

\* a pop and a peek failed on the empty stack, and a peek succeeded on a
\* stack of two elements
C15_Witness ==
    /\ \E i \in 1..Len(calls) :
          calls[i].op = "pop" /\ calls[i].err = "IndexError"
    /\ \E i \in 1..Len(calls) :
          calls[i].op = "peek" /\ calls[i].err = "IndexError"
    /\ \E i \in 1..Len(calls) :
          calls[i].op = "peek" /\ Len(calls[i].before) = 2

\* C16 (as claimed): when load_program has returned, whatever the machine
\* did before, pc is 0, both counters are 0 and the running flag is clear.
C16_LoadResets ==
    phase = "loaded" =>
        /\ pc = 0
        /\ instruction_count = 0
        /\ cycle_count = 0
        /\ ~running

\* C17 (as claimed): when a machine that has already run a program is given
\* a new one and executed, the new run starts with an empty stack.
C17_NewRunStartsEmpty ==
    (runs >= 2 /\ phase = "loop" /\ hist = <<>>) => stack = <<>>

\* ------------------------------------------------------------ the registry
Attempted == attempt.outcome # ""

AttemptModule == module_from_spec(attempt.file)

Rejected ==
    /\ attempt.outcome # "loaded"
    /\ opcodes = attempt.before.opcodes
    /\ extensions = attempt.before.extensions

\* C19 (as claimed): no two names of the registry share a numeric code, and
\* an attempt to register a new name under a code some name already has is
\* rejected and adds nothing.
C19_CodesInjective ==
    /\ \A a, b \in DOMAIN opcodes : a # b => opcodes[a] # opcodes[b]
    /\ (/\ Attempted
        /\ AttemptModule.complete
        /\ AttemptModule.OPCODE_NAME \notin DOMAIN attempt.before.opcodes
        /\ AttemptModule.OPCODE_VALUE \in Values(attempt.before.opcodes))
           => Rejected

\* C20: after any sequence of registration attempts each of the 12 base
\* opcodes has its fixed code, is not an extension, and takes an operand
\* exactly if it is PUSH, JUMP or JZ.
C20_BaseOpcodesFixed ==
    /\ Cardinality(BaseNames) = 12
    /\ \A n \in BaseNames :
          /\ n \in DOMAIN opcodes
          /\ opcodes[n] = BASE_OPCODES[n]
          /\ ~is_extension(extensions, n)
          /\ has_operand(extensions, n) = (n \in {"PUSH", "JUMP", "JZ"})

\* with an extension already registered, a complete module named PUSH that
\* brings a free code and no operand was turned away
C20_Witness ==
    /\ DOMAIN extensions # {}
    /\ attempt.file = "push"
    /\ AttemptModule.OPCODE_VALUE \notin Values(opcodes)
    /\ attempt.outcome = "base opcode"

\* C21: the first registration of a name stands: an attempt that brings a
\* name the registry already holds as an extension is rejected, every
\* extension registered before an attempt keeps its code, its module (and
\* with it its operand flag and its execute), and an attempt that is not
\* loaded changes no entry of the registry.
C21_FirstRegistrationWins ==
    Attempted =>
        /\ AttemptModule.OPCODE_NAME \in DOMAIN attempt.before.extensions
              => Rejected
        /\ \A n \in DOMAIN attempt.before.extensions :
              /\ n \in DOMAIN extensions /\ n \in DOMAIN opcodes
              /\ opcodes[n] = attempt.before.opcodes[n]
              /\ extensions[n] = attempt.before.extensions[n]
              /\ has_operand(extensions, n)
                    = has_operand(attempt.before.extensions, n)
        /\ attempt.outcome # "loaded"
              => /\ opcodes = attempt.before.opcodes
                 /\ extensions = attempt.before.extensions

\* with MOD registered from mod.py, a complete second module named MOD that
\* brings another code and the other operand flag was turned away
C21_Witness ==
    /\ attempt.file = "mod_alt"
    /\ attempt.outcome = "existing opcode"
    /\ "MOD" \in DOMAIN extensions
    /\ extensions["MOD"] = "mod"
    /\ AttemptModule.OPCODE_VALUE # opcodes["MOD"]
    /\ AttemptModule.HAS_OPERAND # has_operand(extensions, "MOD")

\* ------------------------------------------------------------ the bytecode
\* a load of the output file came back with a program
Loaded == result.op = "load" /\ result.returned

\* the header's count and the i-th record of the output file, as stored
StoredCount == IntOf(unpack_I(read(output.bytes, 5, 4)))
StoredCode(i) == read(output.bytes, 9 + 5 * (i - 1), 1)[1]
StoredOperand(i) == unpack_i(read(output.bytes, 10 + 5 * (i - 1), 4))

\* C22 (as claimed): a program the compiler encoded without error is loaded
\* back as the same program, an absent operand absent and an operand 0 as 0.
C22_ProgramRoundTrip ==
    (result.op = "load" /\ result.compiled = "ok")
        => /\ result.returned
           /\ result.program = result.encoded

\* C23 (as claimed): the program loaded from a file is encoded as the very
\* bytes of that file.
C23_BytesRoundTrip ==
    Loaded => /\ write_program(opcodes, result.program).err = ""
              /\ write_program(opcodes, result.program).written = output.bytes

\* C24 (as claimed): a loaded instruction has no operand exactly when the
\* registry does not declare its opcode operand-bearing and the stored
\* operand is 0; otherwise its operand is the stored value.
C24_OperandFromRegistry ==
    Loaded =>
        \A i \in 1..Len(result.program) :
            LET ins == result.program[i]
                absent == /\ ~has_operand(extensions, ins.opcode)
                          /\ StoredOperand(i) = 0
            IN /\ IsNone(ins.operand) <=> absent
               /\ ~absent => ins.operand = PyInt(StoredOperand(i))

\* C25 (as claimed): a load returns a program only from a file that holds,
\* after its 9-byte header, exactly as many 5-byte records as the header
\* counts, and the program has that many instructions.
C25_CountMatchesRecords ==
    (result.op \in {"load", "load_bytecode"} /\ result.returned)
        => /\ Len(output.bytes) = 9 + 5 * StoredCount
           /\ Len(result.program) = StoredCount

\* the records the output file holds whole after its header
RecordsPresent ==
    IF Len(output.bytes) < 9 THEN 0 ELSE (Len(output.bytes) - 9) \div 5

\* C26: a load checks the magic number, then the version, then the records:
\* a file whose first four bytes are not STKM is refused as an invalid file
\* format whatever follows; with the right magic a version byte other than 1
\* is refused as an unsupported version; with both right, a counted record
\* whose code no opcode has is refused as an unknown opcode number; and a
\* load that fails returns no program.
C26_ValidationOrder ==
    (result.op \in {"load", "load_bytecode"} /\ output.exists) =>
        LET b == output.bytes
            magic_ok == read(b, 0, 4) = MAGIC
        IN /\ ~magic_ok => result.err = "ValueError: Invalid file format"
           /\ (magic_ok /\ Len(b) >= 5 /\ b[5] # VERSION)
                 => result.err = "ValueError: Unsupported version"
           /\ (/\ magic_ok /\ Len(b) >= 9 /\ b[5] = VERSION
               /\ \E i \in 1..RecordsPresent :
                     /\ in_range(i - 1, unpack_I(read(b, 5, 4)))
                     /\ StoredCode(i) \notin Values(opcodes))
                 => result.err = "ValueError: Unknown opcode number"
           /\ result.err # "" => ~result.returned /\ result.program = <<>>

\* a file with a wrong magic number, the version 99 and a record of the
\* unused code 0xAA was refused for its magic number
C26_Witness ==
    /\ result.op = "load"
    /\ result.err = "ValueError: Invalid file format"
    /\ Len(output.bytes) >= 14
    /\ output.bytes[5] # VERSION
    /\ StoredCount >= 1
    /\ StoredCode(1) \notin Values(opcodes)

\* the output file is a whole bytecode file: the header, and as many
\* records as the header counts
WholeFile ==
    /\ output.exists
    /\ Len(output.bytes) >= 9
    /\ read(output.bytes, 0, 4) = MAGIC
    /\ output.bytes[5] = VERSION
    /\ Len(output.bytes) = 9 + 5 * StoredCount

\* C27 (as claimed): after a compile that failed, while assembling or while
\* encoding, the output path holds what it held before (or nothing), or a
\* whole bytecode file; never a part of one.
C27_NoCorruptOutput ==
    (result.op = "compile" /\ result.err # "")
        => output = result.previous \/ WholeFile

\* ------------------------------------------------------------ the assembler
\* the label-aware parser was given the source
Assembled == result.op = "parse_file" /\ result.parser = "labels"

IsCommand(j) == source[j].kind = "command"

\* the instructions that lines 1..k-1 of the source emit
InstrsBefore(k) == Cardinality({j \in 1..(k - 1) : IsCommand(j)})

\* the lines that declare the label name, and whether any does
Declarations(name) ==
    {k \in 1..Len(source) : source[k].kind = "label" /\ source[k].text = name}
Declared(name) == Declarations(name) # {}

\* the address the label stands for: the instructions before its declaration
LabelAddress(name) ==
    InstrsBefore(CHOOSE k \in Declarations(name) :
                    \A m \in Declarations(name) : k <= m)

\* line j is a JUMP or JZ whose operand is not an integer literal
IsReference(j) ==
    /\ IsCommand(j)
    /\ upper(source[j].word) \in {"JUMP", "JZ"}
    /\ ~IsNone(source[j].text)
    /\ int(source[j].text).err # ""

\* the source has a defect other than a reference to an undeclared label
OtherDefect ==
    \E j \in 1..Len(source) :
        \/ source[j].kind = "label" /\ source[j].text = <<>>
        \/ source[j].kind = "label" /\ Cardinality(Declarations(source[j].text)) > 1
        \/ IsCommand(j) /\ upper(source[j].word) \notin DOMAIN opcodes
        \/ /\ IsCommand(j) /\ ~IsReference(j) /\ ~IsNone(source[j].text)
           /\ int(source[j].text).err # ""

\* C28 (as claimed): every JUMP/JZ whose operand is not an integer literal
\* is emitted with the number of instructions before the declaration of
\* that label, declared before or after the jump; a source whose only
\* defect is a reference to a label declared nowhere fails with an
\* undefined label, and a source without defect assembles.
C28_LabelResolution ==
    Assembled =>
        LET refs == {j \in 1..Len(source) : IsReference(j)}
            undeclared == {j \in refs : ~Declared(source[j].text)}
        IN /\ result.returned =>
                \A j \in refs :
                    /\ Declared(source[j].text)
                    /\ result.program[InstrsBefore(j) + 1].operand
                          = PyInt(LabelAddress(source[j].text))
           /\ undeclared # {} => ~result.returned
           /\ (undeclared # {} /\ ~OtherDefect)
                 => result.err = "ValueError: Undefined label"
           /\ (undeclared = {} /\ ~OtherDefect) => result.returned

\* line j declares a label that an earlier line has declared
IsDuplicate(j) ==
    /\ source[j].kind = "label"
    /\ \E k \in 1..(j - 1) :
          source[k].kind = "label" /\ source[k].text = source[j].text

IsEmptyLabel(j) == source[j].kind = "label" /\ source[j].text = <<>>

\* line j is the first line that the first pass cannot accept
FirstRefused(j) ==
    LET refused(k) ==
            \/ IsEmptyLabel(k)
            \/ IsDuplicate(k)
            \/ IsCommand(k) /\ upper(source[k].word) \notin DOMAIN opcodes
    IN refused(j) /\ \A k \in 1..(j - 1) : ~refused(k)

\* C29: a declaration of a label that is already in the label table fails
\* the assembly with a duplicate label, and a declaration without a name
\* with an empty label name; the table keeps for every name the address of
\* its first declaration; and the failing assembly returns no program.
C29_LabelsUnique ==
    Assembled =>
        /\ \A j \in 1..Len(source) :
              /\ (FirstRefused(j) /\ IsEmptyLabel(j))
                    => result.err = "ValueError: Empty label name"
              /\ (FirstRefused(j) /\ ~IsEmptyLabel(j) /\ IsDuplicate(j))
                    => result.err = "ValueError: Duplicate label"
              /\ IsDuplicate(j) => ~result.returned
        /\ \A name \in DOMAIN result.labels :
              /\ Declared(name)
              /\ result.labels[name] = LabelAddress(name)
        /\ result.err # "" => ~result.returned /\ result.program = <<>>

\* L was declared at address 0 and again after one instruction: the
\* assembly failed and the table still had L at 0
C29_Witness ==
    /\ Assembled
    /\ result.err = "ValueError: Duplicate label"
    /\ \E j \in 1..Len(source) :
          /\ IsDuplicate(j)
          /\ InstrsBefore(j) # LabelAddress(source[j].text)
          /\ result.labels[source[j].text] = LabelAddress(source[j].text)

\* C30 (as claimed): in a program a parser returns, an instruction has an
\* operand only if the registry declares its opcode operand-bearing.
C30_OperandOnlyIfBearing ==
    (result.op = "parse_file" /\ result.returned) =>
        \A i \in 1..Len(result.program) :
            ~IsNone(result.program[i].operand)
                => has_operand(extensions, result.program[i].opcode)

\* C32: MOD on a stack [..., a, b] of integers fails with ZeroDivisionError
\* if and only if b = 0; otherwise it succeeds and replaces a and b by the
\* remainder r of the floor division: a = b * floor(a / b) + r, and r is 0
\* or has the sign of b.
C32_ModFloor ==
    (Dispatched /\ last.opcode = "MOD" /\ Depth >= 2
     /\ ~IsNone(Before[Depth]) /\ ~IsNone(Before[Depth - 1])) =>
        /\ (last.after.err = "ZeroDivisionError") <=> (TopB = 0)
        /\ TopB # 0 =>
              /\ last.after.err = ""
              /\ last.after.stack = Append(Below(2), PyInt(Pushed))
              /\ Pushed = 0 \/ ((Pushed < 0) <=> (TopB < 0))
              /\ LET n == IF TopA < 0 THEN 0 - TopA ELSE TopA
                 IN \E q \in (0 - n - 1)..(n + 1) :
                       /\ IsFloorQuot(q, TopA, TopB)
                       /\ TopA = TopB * q + Pushed

\* MOD succeeded on operands of different signs that leave a remainder,
\* where the floor and the truncated remainder differ
C32_Witness ==
    /\ Succeeded /\ last.opcode = "MOD"
    /\ Depth >= 2
    /\ (TopA < 0) # (TopB < 0)
    /\ Pushed # 0

\* the mnemonic of command line j in capitals
Mnemonic(j) ==
    IF source[j].word \in DOMAIN UPPER THEN UPPER[source[j].word]
    ELSE source[j].word

\* line j is an instruction line whose mnemonic is no name of the registry
IsUnknown(j) == IsCommand(j) /\ Mnemonic(j) \notin DOMAIN opcodes

\* C33: the assembler refuses an instruction line for its opcode if and
\* only if the mnemonic in capitals is no name of the registry: a source
\* with such a line yields no program, its first such line fails the
\* assembly with an unknown opcode unless a label declaration before it has
\* failed already, and no other line fails that way; a program that is
\* returned holds one instruction per instruction line, in source order,
\* under the mnemonic in capitals.
C33_OpcodeCheck ==
    Assembled =>
        LET lines == 1..Len(source) IN
        /\ (\E j \in lines : IsUnknown(j))
              => ~result.returned /\ result.program = <<>>
        /\ \A j \in lines :
              (/\ IsUnknown(j)
               /\ \A k \in 1..(j - 1) :
                     ~IsUnknown(k) /\ ~IsEmptyLabel(k) /\ ~IsDuplicate(k))
                 => result.err = "ValueError: Unknown opcode"
        /\ result.err = "ValueError: Unknown opcode"
              => \E j \in lines : IsUnknown(j)
        /\ result.returned =>
              /\ Len(result.program) = InstrsBefore(Len(source) + 1)
              /\ \A j \in lines :
                    IsCommand(j) =>
                        /\ Mnemonic(j) \in DOMAIN opcodes
                        /\ result.program[InstrsBefore(j) + 1].opcode
                              = Mnemonic(j)

\* a source with a mnemonic in small letters after a line that emits
\* nothing was assembled: its instruction is found under the name in
\* capitals
C33_Witness ==
    /\ Assembled /\ result.returned
    /\ \E j \in 2..Len(source) :
          /\ IsCommand(j) /\ source[j].word # Mnemonic(j)
          /\ InstrsBefore(j) < j - 1
          /\ result.program[InstrsBefore(j) + 1].opcode = Mnemonic(j)

\* C34 (as claimed): with PUSH operands within [-2^31, 2^31 - 1], every
\* value on the stack is within [-2^31, 2^31 - 1] in every state of the
\* run: ADD, SUB and MUL leave no value outside that range.
C34_Int32Range ==
    \A i \in 1..Len(stack) :
        /\ ~IsBig(stack[i])
        /\ ~IsNone(stack[i]) =>
              (0 - INT_MAX - 1 <= IntOf(stack[i]) /\ IntOf(stack[i]) <= INT_MAX)

\* C35 (as claimed): in every state of a run of a program the assembler
\* accepted, every element of the stack is an integer; a PUSH written
\* without operand puts no None on the stack.
C35_StackHoldsIntegers ==
    (result.op = "parse_file" /\ result.returned)
        => \A i \in 1..Len(stack) : ~IsNone(stack[i])

\* the addresses dispatched in this run are inside the program and each is
\* above the one before
IncreasingAddresses ==
    /\ Len(hist) <= Len(program)
    /\ \A i \in 1..Len(hist) :
          /\ hist[i].at \in 0..(Len(program) - 1)
          /\ i > 1 => hist[i - 1].at < hist[i].at

\* C38: a program of N instructions without JUMP, JZ and extension opcode
\* terminates: execute() returns or raises, having dispatched at most N
\* instructions, every address at most once and in increasing order.
C38_StraightLineTerminates ==
    /\ [](phase \in {"loop", "exec", "returned", "raised"}
             => IncreasingAddresses)
    /\ (phase = "loop") ~> (phase \in {"returned", "raised"})

\* a program of the greatest length ran to its end: every address was
\* dispatched once
C38_Witness ==
    /\ phase = "returned"
    /\ Len(program) = MaxProgLen
    /\ Len(hist) = Len(program)
    /\ \A i \in 1..Len(hist) : hist[i].at = i - 1

\* the last instruction the run dispatched was a HALT
EndedByHalt ==
    /\ hist # <<>>
    /\ hist[Len(hist)].opcode = "HALT" /\ hist[Len(hist)].err = ""

\* C39: when execute() has returned normally, running is false if and only
\* if the run ended by HALT or by an interrupt in step mode; otherwise pc
\* moved past the last instruction (at once for the empty program), running
\* is still true and pc is the first address outside the program that was
\* reached.
C39_RunningAtReturn ==
    phase = "returned" =>
        /\ ~running <=> (EndedByHalt \/ interrupted)
        /\ running =>
              /\ pc >= Len(program)
              /\ pc = IF hist = <<>> THEN 0 ELSE ExpectedNext

\* a jump beyond the end of the program ended the run: running is still
\* set and pc is the target
C39_Witness ==
    /\ phase = "returned" /\ running
    /\ hist # <<>>
    /\ pc > Len(program)

\* the lines of the output that trace_state did not print, and those it did
Untraced(lines) == SelectSeq(lines, LAMBDA l : l.kind # "trace")
Traces(lines) == SelectSeq(lines, LAMBDA l : l.kind = "trace")

\* C37 (as claimed): a run with trace, in step mode or not, that no
\* interrupt has ended dispatches the same instructions as the run without trace and stands,
\* after every dispatch and at its end, with the same stack, pc, running
\* flag, counters and printed output (the trace lines aside), ending the
\* same way; and the trace line of each instruction shows the pc and the
\* stack as they were before that instruction was executed.
C37_TraceObserves ==
    (trace /\ ~interrupted /\ phase \in {"loop", "returned", "raised"}) =>
        LET ref == execute_plain(program, extensions, Len(hist)) IN
        /\ hist = ref.hist
        /\ stack = ref.m.stack
        /\ pc = ref.m.pc
        /\ running = ref.m.running
        /\ instruction_count = ref.m.instruction_count
        /\ cycle_count = ref.m.cycle_count
        /\ Untraced(stdout) = ref.m.stdout
        /\ phase # "loop" => phase = ref.status /\ error.type = ref.m.err
        /\ Len(Traces(stdout)) = Len(hist)
        /\ \A i \in 1..Len(hist) :
              LET before == execute_plain(program, extensions, i - 1).m
              IN Traces(stdout)[i].value
                     = <<before.pc, hist[i].opcode,
                         program[list_index(program, before.pc)].operand,
                         before.stack>>

\* the state of a run is that of execute() alone on the same program with
\* the registry as it was constructed
RunsAsAlone(prog, run) ==
    run = execute_plain(prog, EXTENSION_MODULES, Len(run.hist))

\* C36: no step of a tool or of a machine changes the registry, and each of
\* two machines whose runs are interleaved instruction by instruction over
\* the one registry stands after every dispatch, and ends, with the stack,
\* pc, counters and output of its run alone.
C36_SharedRegistry ==
    /\ opcodes = LOADED_OPCODES
    /\ extensions = EXTENSION_MODULES
    /\ phase \in {"loop", "returned", "raised"} =>
          LET ref == execute_plain(program, EXTENSION_MODULES, Len(hist)) IN
          /\ Machine = [ref.m EXCEPT !.err = ""]
          /\ hist = ref.hist
          /\ phase # "loop" => phase = ref.status /\ error.type = ref.m.err
    /\ (peer.made /\ peer.run.status # "idle")
          => RunsAsAlone(peer.program, peer.run)

\* both machines have run an instruction of an extension to the end, the
\* second one having begun while the first was between two dispatches
C36_Witness ==
    /\ phase = "returned" /\ peer.made /\ peer.run.status = "returned"
    /\ \E i \in 1..Len(hist) : hist[i].opcode = "NEG"
    /\ \E i \in 1..Len(peer.run.hist) : peer.run.hist[i].opcode = "NEG"
    /\ 0 < peer.began /\ peer.began < Len(hist)

\* C31: when the text disassembled, in any of the three modes, from a file
\* the compiler produced is compiled again, the compilation succeeds and
\* the file it writes is byte for byte the file that was disassembled.
C31_DisassemblyRoundTrip ==
    /\ (result.op = "disassemble" /\ result.compiled = "ok")
          => result.err = ""
    /\ (result.op = "recompile" /\ result.compiled = "ok") =>
          /\ result.err = ""
          /\ output.exists /\ output = result.previous

\* a file with a negative operand and an instruction without operand went
\* through the verbose disassembly and back
C31_Witness ==
    /\ result.op = "recompile" /\ result.parser = "verbose"
    /\ result.compiled = "ok"
    /\ \E i \in 1..Len(result.encoded) :
          /\ ~IsNone(result.encoded[i].operand)
          /\ ~IsBig(result.encoded[i].operand)
          /\ IntOf(result.encoded[i].operand) < 0
    /\ \E i \in 1..Len(result.encoded) : IsNone(result.encoded[i].operand)
    /\ output = result.previous

====
